---------------------------- MODULE Spec2Model ----------------------------
(***************************************************************************)
(* Model of the Math_in_Motion trajectory pipeline: the joint-space        *)
(* pattern generators of pattern_generator.py and TestCode.py, the         *)
(* URScript serializers (generate_pattern_script in math_motion.py and     *)
(* TestCode.py, PatternGenerator.export_to_urscript) and the transport     *)
(* client send_urscript.                                                   *)
(*                                                                         *)
(* Python floats are modelled as fixed-point integers counting units of    *)
(* 1e-5 (ONE = 1.0).  Every arithmetic operator rounds to the nearest      *)
(* unit, so round(a, 4) is a real conversion (to a multiple of 10 units).  *)
(***************************************************************************)
EXTENDS Integers, Sequences, FiniteSets, TLC

(***************************************************************************)
(* Fixed-point arithmetic (Python float operators and the math module)     *)
(***************************************************************************)
ONE == 100000

Abs(a) == IF a < 0 THEN -a ELSE a

Sgn(a) == IF a < 0 THEN -1 ELSE 1

Max(a, b) == IF a >= b THEN a ELSE b

Min(a, b) == IF a <= b THEN a ELSE b

\* h + m / 100 + l / ONE, the three partial products of a * b, rounded
MulCarry(h, m, l) ==
    h + (m \div 100) + (((m % 100) * 1000 + l + 50000) \div 100000)

MulParts(ah, al, bh, bl) == MulCarry(ah * bh * 10, ah * bl + al * bh, al * bl)

\* |a| * |b| / ONE, rounded to the nearest unit, without leaving 32 bits
MulAbs(a, b) == MulParts(a \div 1000, a % 1000, b \div 1000, b % 1000)

\* float a * b
Mul(a, b) == Sgn(a) * Sgn(b) * MulAbs(Abs(a), Abs(b))

RECURSIVE DivFrac(_, _, _)
DivFrac(r, b, k) ==
    IF k = 0 THEN (IF 2 * r >= b THEN 1 ELSE 0)
    ELSE ((r * 10) \div b) * (<<1, 10, 100, 1000, 10000>>[k])
           + DivFrac((r * 10) % b, b, k - 1)

DivAbs(a, b) == (a \div b) * ONE + DivFrac(a % b, b, 5)

\* float a / b for b # 0 (the callers guard b = 0, as the source does)
Div(a, b) == Sgn(a) * Sgn(b) * DivAbs(Abs(a), Abs(b))

\* int i / int n as a float (Python true division of two integers)
IntDiv(i, n) == Div(i * ONE, n * ONE)

\* the two limbs (base 10^6) of r * r, from r = rh * 1000 + rl
SqLimbs(rh, rl, m, t) ==
    [H |-> rh * rh + (m \div 1000) + (t \div 1000000), L |-> t % 1000000]

SqOf(rh, rl) ==
    SqLimbs(rh, rl, 2 * rh * rl, ((2 * rh * rl) % 1000) * 1000 + rl * rl)

\* r * r <= v * ONE
SqLeqLimbs(sq, v) ==
    sq.H < v \div 10 \/ (sq.H = v \div 10 /\ sq.L <= (v % 10) * 100000)

SqLeq(r, v) == SqLeqLimbs(SqOf(r \div 1000, r % 1000), v)

RECURSIVE SqrtBisect(_, _, _)
SqrtBisect(lo, hi, v) ==
    IF hi - lo <= 1 THEN lo
    ELSE IF SqLeq((lo + hi) \div 2, v) THEN SqrtBisect((lo + hi) \div 2, hi, v)
    ELSE SqrtBisect(lo, (lo + hi) \div 2, v)

\* math.sqrt(v) for v >= 0
Sqrt(v) == SqrtBisect(0, 46340000, v)

PI == 314159

TWO_PI == 628318

HALF_PI == 157080

QUARTER_PI == 78540

\* x - x^3/3! + x^5/5! - x^7/7! in Horner form, x2 = x * x
SinPoly(x, x2) ==
    Mul(x, ONE - (Mul(x2, ONE - (Mul(x2, ONE - (x2 \div 42)) \div 20)) \div 6))

\* 1 - x^2/2! + x^4/4! - x^6/6! + x^8/8! in Horner form, x2 = x * x
CosPoly(x2) ==
    ONE - (Mul(x2, ONE - (Mul(x2, ONE - (Mul(x2, ONE - (x2 \div 56)) \div 30))
                            \div 12)) \div 2)

\* sin on [0, pi/4]
SinT(x) == SinPoly(x, Mul(x, x))

\* cos on [0, pi/4]
CosT(x) == CosPoly(Mul(x, x))

\* sin on [0, pi/2]
SinFold(q) == IF q <= QUARTER_PI THEN SinT(q) ELSE CosT(HALF_PI - q)

\* sin on [0, pi)
SinHalf(r) == SinFold(IF r > HALF_PI THEN PI - r ELSE r)

\* sin on [0, 2 pi)
SinReduced(r) ==
    (IF r >= PI THEN -1 ELSE 1) * SinHalf(IF r >= PI THEN r - PI ELSE r)

\* math.sin(t)
Sin(t) == SinReduced(t % TWO_PI)

\* math.cos(t)
Cos(t) == Sin(t + HALF_PI)

EPow == <<271828, 738906, 2008554, 5459815, 14841316, 40342879, 109663316>>

\* exp on [0, 1): 1 + f + f^2/2! + ... + f^9/9! in Horner form
ExpT(f) ==
    ONE + Mul(f, ONE + (Mul(f, ONE + (Mul(f, ONE + (Mul(f, ONE + (Mul(f,
      ONE + (Mul(f, ONE + (Mul(f, ONE + (Mul(f, ONE + (f \div 9)) \div 8))
      \div 7)) \div 6)) \div 5)) \div 4)) \div 3)) \div 2))

ExpParts(k, e) == IF k = 0 THEN e ELSE Mul(EPow[k], e)

\* np.exp(x) for 0 <= x <= 7 (batman_pattern only takes exp of |ti| <= 7)
Exp(x) == ExpParts(x \div ONE, ExpT(x % ONE))

Sq(a) == Mul(a, a)

\* a ** 3 and a ** 5
Pow3(a) == Mul(Sq(a), a)

Pow5(a) == Mul(Sq(Sq(a)), a)

RoundTo(q, r) == IF r > 5 \/ (r = 5 /\ q % 2 = 1) THEN q + 1 ELSE q

RoundAbs(a) == 10 * RoundTo(a \div 10, a % 10)

\* round(a, 4): nearest multiple of 1e-4, ties to even
Round4(a) == Sgn(a) * RoundAbs(Abs(a))

(***************************************************************************)
(* Pattern generators: one sample of each curve, as joint angles.  Each    *)
(* loop body is split into the curve point (x, y, z) and the joint         *)
(* mapping; sin(t) and cos(t) are passed as s and c.                       *)
(***************************************************************************)
\* j1_center .. j6_center, the home position every PatternGenerator method
\* declares before its loop
Home == <<0, -157000, 157000, 0, 157000, 0>>

\* a clamp that has lost its upper bound: max(lo, j)
ClampLowOnly(lo, hi, j) == Max(lo, j)

\* max(lo, min(hi, j))
Clamp(lo, hi, j) == Max(lo, Min(hi, j))

\* the "Safety clamps" block: j3 in [0.5, 2.5], the others in [-3.14, 3.14]
SafetyClamp(w) ==
    << Clamp(-314000, 314000, w[1]), Clamp(-314000, 314000, w[2]),
       Clamp(50000, 250000, w[3]),   Clamp(-314000, 314000, w[4]),
       Clamp(-314000, 314000, w[5]), Clamp(-314000, 314000, w[6]) >>

\* a progress parameter folded back into one period
ProgressWrapped(i, n, k, speed) ==
    Mul(Mul(Mul(IntDiv(i, n), k * ONE), PI), speed) % TWO_PI

\* a parameter that starts one sample late: ((i + 1) / self.num_points) * ...
ProgressFromOne(i, n, k, speed) ==
    Mul(Mul(Mul(IntDiv(i + 1, n), k * ONE), PI), speed)

\* t = (i / self.num_points) * k * math.pi * speed
Progress(i, n, k, speed) == Mul(Mul(Mul(IntDiv(i, n), k * ONE), PI), speed)

Point(x, y, z) == [x |-> x, y |-> y, z |-> z]

\* x = a*cos(t)/denom if denom != 0 else 0, for a given numerator
Over(num, denom) == IF denom # 0 THEN Div(num, denom) ELSE 0

infinity_3d_curve(t, s, c, a) ==
    Point(Over(Mul(a.scale, c), ONE + Sq(s)),
          Over(Mul(Mul(a.scale, c), s), ONE + Sq(s)),
          Mul(Mul(a.scale, Sin(Mul(t, 2 * ONE))), 40000))

infinity_3d_map(t, p) ==
    << Home[1] + Mul(p.x, 80000),
       Home[2] + Mul(p.y, 50000),
       Home[3] + Mul(p.z, 50000) + Mul(p.x + p.y, 20000),
       Home[4] + Mul(Sin(Mul(t, 2 * ONE)), 15000),
       Home[5] + Mul(Cos(Mul(t, 2 * ONE)), 15000),
       Home[6] + Mul(t, 8000) >>

infinity_3d_at(t, a) == infinity_3d_map(t, infinity_3d_curve(t, Sin(t), Cos(t), a))

infinity_3d_wp(i, n, a) == infinity_3d_at(Progress(i, n, 2, a.speed), a)

circle_pattern_curve(t, s, c, a) ==
    IF a.plane = "horizontal"
    THEN Point(Mul(a.scale, c), Mul(a.scale, s),
               Mul(Mul(a.scale, 30000), Sin(Mul(t, 2 * ONE))))
    ELSE IF a.plane = "vertical_xz"
    THEN Point(Mul(a.scale, c), 0, Mul(a.scale, s))
    ELSE Point(0, Mul(a.scale, c), Mul(a.scale, s))

circle_pattern_map(t, p) ==
    << Home[1] + Mul(p.x, 80000),
       Home[2] + Mul(p.y, 50000) + Mul(p.z, 50000),
       Home[3] + Mul(p.x + p.z, 40000),
       Home[4] + Mul(Sin(Mul(t, 2 * ONE)), 15000),
       Home[5] + Mul(Cos(Mul(t, 2 * ONE)), 15000),
       Home[6] + Mul(t, 8000) >>

circle_pattern_at(t, a) ==
    circle_pattern_map(t, circle_pattern_curve(t, Sin(t), Cos(t), a))

circle_pattern_wp(i, n, a) == circle_pattern_at(Progress(i, n, 2, a.speed), a)

\* x = (i / N) * 0.8 - 0.4 depends on the sample index, passed as frac = i / N
wave_pattern_curve(t, s, frac, a) ==
    Point(Mul(frac, 80000) - 40000,
          Mul(a.scale, s),
          Mul(Mul(a.scale, Cos(Mul(t, 50000))), 70000))

wave_pattern_map(t, s, c, p) ==
    << Home[1] + Mul(p.x, 50000),
       Home[2] + Mul(p.y, 50000),
       Home[3] + Mul(p.y, 40000) + Mul(p.z, 40000),
       Home[4] + Mul(s, 15000),
       Home[5] + Mul(c, 15000),
       Home[6] + Mul(t, 4000) >>

wave_pattern_at(t, s, frac, a) ==
    wave_pattern_map(t, s, Cos(t), wave_pattern_curve(t, s, frac, a))

\* t = (i / N) * wavelength * 2 * math.pi * speed
wave_pattern_t(frac, a) ==
    Mul(Mul(Mul(Mul(frac, a.wavelength), 2 * ONE), PI), a.speed)

wave_pattern_frac(frac, t, a) == wave_pattern_at(t, Sin(t), frac, a)

wave_pattern_wp(i, n, a) ==
    wave_pattern_frac(IntDiv(i, n), wave_pattern_t(IntDiv(i, n), a), a)

\* z = (i / N) * height, passed as frac = i / N
spiral_pattern_curve(s, c, frac, a) ==
    Point(Mul(a.scale, c), Mul(a.scale, s), Mul(frac, a.height))

spiral_pattern_map(t, s, c, p) ==
    << Home[1] + Mul(p.x, 80000),
       Home[2] + Mul(p.y, 50000),
       Home[3] + Mul(p.z, 80000) + Mul(Mul(p.x, p.y), 30000),
       Home[4] + Mul(s, 15000),
       Home[5] + Mul(c, 15000),
       Home[6] + Mul(t, 8000) >>

spiral_pattern_at(t, s, c, frac, a) ==
    spiral_pattern_map(t, s, c, spiral_pattern_curve(s, c, frac, a))

spiral_pattern_t(t, frac, a) == spiral_pattern_at(t, Sin(t), Cos(t), frac, a)

spiral_pattern_wp(i, n, a) ==
    spiral_pattern_t(Progress(i, n, 4, a.speed), IntDiv(i, n), a)

\* 13*cos(t) - 5*cos(2*t) - 2*cos(3*t) - cos(4*t)
HeartY(t, c) ==
    Mul(13 * ONE, c) - Mul(5 * ONE, Cos(Mul(2 * ONE, t)))
      - Mul(2 * ONE, Cos(Mul(3 * ONE, t))) - Cos(Mul(4 * ONE, t))

heart_pattern_curve(t, s, c, a) ==
    Point(Mul(Mul(a.scale, 16 * ONE), Pow3(s)),
          Mul(a.scale, HeartY(t, c)),
          Mul(Mul(a.scale, 20000), Sin(Mul(t, 3 * ONE))))

heart_pattern_map(t, p) ==
    << Home[1] + Mul(p.x, 60000),
       Home[2] + Mul(p.y, 40000),
       Home[3] + Mul(p.y, 30000) + Mul(p.z, 20000),
       Home[4] + Mul(Sin(Mul(t, 2 * ONE)), 12000),
       Home[5] + Mul(Cos(Mul(t, 2 * ONE)), 12000),
       Home[6] + Mul(t, 6000) >>

heart_pattern_at(t, a) ==
    heart_pattern_map(t, heart_pattern_curve(t, Sin(t), Cos(t), a))

heart_pattern_wp(i, n, a) == heart_pattern_at(Progress(i, n, 2, a.speed), a)

heart_equation_curve(t, s, c, a) ==
    Point(Mul(Mul(Mul(16 * ONE, Pow3(s)), a.scale), 1500),
          Mul(Mul(HeartY(t, c), a.scale), 800),
          Mul(Mul(ONE + c, a.scale), 20000))

\* j1 .. j6 of heart_equation before the clamps
heart_equation_joints(t, p) ==
    << Home[1] + Mul(p.x, 150000),
       Home[2] + Mul(p.y, 80000),
       Home[3] + Mul(p.z, 60000) + Mul(Abs(p.x) + Abs(p.y), 15000),
       Home[4] + Mul(Sin(Mul(t, 150000)), 20000),
       Home[5] + Mul(Cos(Mul(t, 150000)), 20000),
       Home[6] + Mul(t, 10000) >>

\* the "Safety clamps" block applied to j1 .. j6
heart_equation_map(t, p) == SafetyClamp(heart_equation_joints(t, p))

heart_equation_at(t, a) ==
    heart_equation_map(t, heart_equation_curve(t, Sin(t), Cos(t), a))

heart_equation_wp(i, n, a) == heart_equation_at(Progress(i, n, 2, a.speed), a)

\* j1 .. j6 of sample i before the clamps
heart_equation_raw_at(t, a) ==
    heart_equation_joints(t, heart_equation_curve(t, Sin(t), Cos(t), a))

heart_equation_raw(i, n, a) ==
    heart_equation_raw_at(Progress(i, n, 2, a.speed), a)

\* y (the same expression in both wing branches), then y_ears
batman_wing(s, a) ==
    Mul(Mul(Mul(s, 80000) + Mul(Pow3(s), 60000), a.scale), 20000)

batman_ears(t, s, c, a) ==
    batman_wing(s, a) + Mul(Mul(Mul(Abs(Sin(Mul(t, 3 * ONE))), c), a.scale), 15000)

\* x, y_head and z of the loop body
batman_equation_curve(t, s, c, a) ==
    Point(Mul(Mul(c, a.scale), 40000),
          IF Abs(c) < 30000 THEN Mul(Mul(Mul(s, 30000), a.scale), 20000)
          ELSE batman_ears(t, s, c, a),
          Mul(Mul(Abs(Sin(Mul(t, 150000))), a.scale), 25000))

\* j1 .. j6 of batman_equation before the clamps
batman_equation_joints(t, p) ==
    << Home[1] + Mul(p.x, 120000),
       Home[2] + Mul(p.y, 90000),
       Home[3] + Mul(p.z, 70000) + Mul(Abs(p.x), 20000),
       Home[4] + Mul(Sin(Mul(t, 2 * ONE)), 15000),
       Home[5] + Mul(Cos(Mul(t, 2 * ONE)), 15000),
       Home[6] + Mul(t, 8000) >>

\* the "Safety clamps" block applied to j1 .. j6
batman_equation_map(t, p) == SafetyClamp(batman_equation_joints(t, p))

batman_equation_at(t, a) ==
    batman_equation_map(t, batman_equation_curve(t, Sin(t), Cos(t), a))

batman_equation_wp(i, n, a) == batman_equation_at(Progress(i, n, 2, a.speed), a)

\* j1 .. j6 of sample i before the clamps
batman_equation_raw_at(t, a) ==
    batman_equation_joints(t, batman_equation_curve(t, Sin(t), Cos(t), a))

batman_equation_raw(i, n, a) ==
    batman_equation_raw_at(Progress(i, n, 2, a.speed), a)

infinity_symbol_curve(t, s, c, a) ==
    Point(Mul(Over(Mul(a.scale, c), ONE + Sq(s)), 120000),
          Mul(Over(Mul(Mul(a.scale, s), c), ONE + Sq(s)), 120000),
          Mul(Mul(a.scale, Sin(Mul(t, 2 * ONE))), 50000))

\* rot = rotation_factor = sin(t * 1.5) * 0.3
\* j1 .. j6 of infinity_symbol before the clamps
infinity_symbol_joints(t, rot, p) ==
    << Home[1] + Mul(p.x, 2 * ONE) + Mul(rot, 50000),
       Home[2] + Mul(p.y, 120000) + Mul(p.z, 60000),
       Home[3] + Mul(p.z, 80000) + Mul(Abs(p.x) + Abs(p.y), 25000),
       Home[4] + Mul(Sin(Mul(t, 250000)), 25000),
       Home[5] + Mul(Cos(Mul(t, 250000)), 25000),
       Home[6] + Mul(t, 12000) >>

\* the "Safety clamps" block applied to j1 .. j6
infinity_symbol_map(t, rot, p) == SafetyClamp(infinity_symbol_joints(t, rot, p))

infinity_symbol_at(t, a) ==
    infinity_symbol_map(t, Mul(Sin(Mul(t, 150000)), 30000),
                        infinity_symbol_curve(t, Sin(t), Cos(t), a))

infinity_symbol_wp(i, n, a) == infinity_symbol_at(Progress(i, n, 2, a.speed), a)

\* j1 .. j6 of sample i before the clamps
infinity_symbol_raw_at(t, a) ==
    infinity_symbol_joints(t, Mul(Sin(Mul(t, 150000)), 30000),
                           infinity_symbol_curve(t, Sin(t), Cos(t), a))

infinity_symbol_raw(i, n, a) ==
    infinity_symbol_raw_at(Progress(i, n, 2, a.speed), a)

(***************************************************************************)
(* Chaotic generators: integrator state, one update per sample             *)
(***************************************************************************)
\* x, y, z before the loop
InitState(g) ==
    IF g = "lorenz_attractor" THEN Point(ONE, ONE, ONE)
    ELSE IF g = "rossler_attractor" THEN Point(ONE, 0, 0)
    ELSE Point(0, 0, 0)

\* x = (x / magnitude) * scale * k
Rescale(s, magnitude, scale, k) ==
    IF magnitude > 0
    THEN Point(Mul(Mul(Div(s.x, magnitude), scale), k * ONE),
               Mul(Mul(Div(s.y, magnitude), scale), k * ONE),
               Mul(Mul(Div(s.z, magnitude), scale), k * ONE))
    ELSE s

\* "Normalize to prevent explosion": rescale the state to length scale * k
Normalize(s, scale, k) ==
    Rescale(s, Sqrt(Sq(s.x) + Sq(s.y) + Sq(s.z)), scale, k)

\* x += dx * dt, with dt = 0.01
Euler(s, dx, dy, dz) ==
    Point(s.x + Mul(dx, 1000), s.y + Mul(dy, 1000), s.z + Mul(dz, 1000))

\* a Lorenz step that updates x before dy and dz are computed
lorenz_step_sequential(s, a) ==
    Normalize(Euler(s, Mul(10 * ONE, s.y - s.x),
                       Mul(s.x + Mul(Mul(10 * ONE, s.y - s.x), 1000),
                           Mul(28 * ONE, a.complexity) - s.z) - s.y,
                       Mul(s.x + Mul(Mul(10 * ONE, s.y - s.x), 1000), s.y)
                         - Mul(Div(8 * ONE, 3 * ONE), s.z)),
              a.scale, 10)

\* sigma = 10.0, rho = 28.0 * complexity, beta = 8.0 / 3.0
lorenz_step(s, a) ==
    Normalize(Euler(s, Mul(10 * ONE, s.y - s.x),
                       Mul(s.x, Mul(28 * ONE, a.complexity) - s.z) - s.y,
                       Mul(s.x, s.y) - Mul(Div(8 * ONE, 3 * ONE), s.z)),
              a.scale, 10)

\* j1 .. j6 of lorenz before the clamps
lorenz_joints(s, i) ==
    << Home[1] + Mul(s.x, 50000), Home[2] + Mul(s.y, 40000),
       Home[3] + Mul(s.z, 30000), Home[4] + Mul(s.x, 20000),
       Home[5] + Mul(s.y, 20000), Home[6] + Mul(s.z, 20000) >>

\* the Lorenz waypoint without its "Safety clamps" block
lorenz_wp_unclamped(s, i) == lorenz_joints(s, i)

\* the "Safety clamps" block applied to j1 .. j6
lorenz_wp(s, i) == SafetyClamp(lorenz_joints(s, i))

\* a = 0.1, b = 0.1, c = 14.0 * complexity
rossler_step(s, a) ==
    Normalize(Euler(s, -s.y - s.z,
                       s.x + Mul(10000, s.y),
                       10000 + Mul(s.z, s.x - Mul(14 * ONE, a.complexity))),
              a.scale, 8)

\* j1 .. j6 of rossler before the clamps
rossler_joints(s, i) ==
    << Home[1] + Mul(s.x, 60000), Home[2] + Mul(s.y, 50000),
       Home[3] + Mul(s.z, 35000),
       Home[4] + Mul(Sin(IntDiv(i, 10)), 30000),
       Home[5] + Mul(Cos(IntDiv(i, 10)), 30000),
       Home[6] + Mul(s.z, 20000) >>

\* the "Safety clamps" block applied to j1 .. j6
rossler_wp(s, i) == SafetyClamp(rossler_joints(s, i))

\* x = max(-1, min(1, x)) * scale, with z_new = (x_new + y_new) * 0.5
HenonFold(x_new, y_new, scale) ==
    Point(Mul(Clamp(-ONE, ONE, x_new), scale),
          Mul(Clamp(-ONE, ONE, y_new), scale),
          Mul(Clamp(-ONE, ONE, Mul(x_new + y_new, 50000)), scale))

\* a = 1.4 * complexity, b = 0.3
henon_step(s, a) ==
    HenonFold(ONE - Mul(Mul(140000, a.complexity), Sq(s.x)) + s.y,
              Mul(30000, s.x), a.scale)

\* j1 .. j6 of henon before the clamps
henon_joints(s, i) ==
    << Home[1] + Mul(s.x, 70000), Home[2] + Mul(s.y, 50000),
       Home[3] + Mul(s.z, 40000),
       Home[4] + Mul(Mul(s.x, s.y), 30000),
       Home[5] + Mul(Mul(s.y, s.z), 30000),
       Home[6] + Mul(Mul(s.z, s.x), 30000) >>

\* the "Safety clamps" block applied to j1 .. j6
henon_wp(s, i) == SafetyClamp(henon_joints(s, i))

(***************************************************************************)
(* TestCode.batman_pattern                                                 *)
(***************************************************************************)
\* np.linspace(-7, 7, num_points)[k]
Linspace(k, n) ==
    IF n = 1 THEN -7 * ONE
    ELSE IF k = n - 1 THEN 7 * ONE
    ELSE -7 * ONE + Mul(k * ONE, Div(14 * ONE, (n - 1) * ONE))

\* x and y of the loop body, e = np.exp(np.abs(ti))
batman_pattern_curve(ti, e) ==
    Point(Mul(50000, Mul(e, Cos(ti)) - Mul(2 * ONE, Cos(Mul(4 * ONE, ti)))
                       - Pow5(Sin(Div(ti, 12 * ONE)))),
          Mul(50000, Mul(e, Sin(ti)) - Mul(2 * ONE, Sin(Mul(4 * ONE, ti)))),
          0)

\* j1_c = 0.0, j2_c = -1.57, j3_c = 1.57; j4, j5, j6 are the literal 0.0
batman_pattern_map(ti, p) ==
    << Round4(0 + Mul(p.x, 8000)),
       Round4(-157000 + Mul(p.y, 6000)),
       Round4(157000 + Mul(4000, Sin(Mul(50000, ti)))),
       0, 0, 0 >>

batman_pattern_at(ti) ==
    batman_pattern_map(ti, batman_pattern_curve(ti, Exp(Abs(ti))))

batman_pattern_wp(i, n) == batman_pattern_at(Linspace(i, n))

(***************************************************************************)
(* Enhanced3DPatterns: one sample of each curve, as joint angles           *)
(***************************************************************************)
\* corners[k] of box_3d, k = 0 .. 7
Corners(size) ==
    << <<0, 0, 0>>, <<size, 0, 0>>, <<size, size, 0>>, <<0, size, 0>>,
       <<0, 0, size>>, <<size, 0, size>>, <<size, size, size>>,
       <<0, size, size>> >>

\* current_corner + (next_corner - current_corner) * progress
Interpolate(cur, nxt, progress) ==
    Point(cur[1] + Mul(nxt[1] - cur[1], progress),
          cur[2] + Mul(nxt[2] - cur[2], progress),
          cur[3] + Mul(nxt[3] - cur[3], progress))

\* corner = int(f), progress = f - corner, for f = (step / N) * cube_steps
box_3d_curve(f, corner, a) ==
    Interpolate(Corners(a.scale)[(corner % 8) + 1],
                Corners(a.scale)[((corner + 1) % 8) + 1],
                f - corner * ONE)

\* ang = step / self.num_points * 4 * math.pi
box_3d_map(frac, ang, p) ==
    << Home[1] + Mul(p.x, 50000),
       Home[2] + Mul(p.y, 30000),
       Home[3] + Mul(p.z, 30000),
       Home[4] + Mul(Sin(ang), 10000),
       Home[5] + Mul(Cos(ang), 10000),
       Home[6] + Mul(frac, 30000) >>

box_3d_at(frac, f, a) ==
    box_3d_map(frac, Mul(Mul(frac, 4 * ONE), PI), box_3d_curve(f, f \div ONE, a))

box_3d_frac(frac, a) == box_3d_at(frac, Mul(frac, 8 * ONE), a)

box_3d_wp(i, n, a) == box_3d_frac(IntDiv(i, n), a)

lissajous_3d_curve(t, a) ==
    Point(Mul(a.scale, Sin(t)),
          Mul(a.scale, Sin(Mul(a.freq_ratio * ONE, t))),
          Mul(Mul(a.scale, Sin(Mul(3 * ONE, t))), 50000))

lissajous_3d_map(t, p) ==
    << Home[1] + Mul(p.x, 50000),
       Home[2] + Mul(p.y, 30000),
       Home[3] + Mul(p.z, 30000),
       Home[4] + Mul(Sin(Mul(t, 2 * ONE)), 10000),
       Home[5] + Mul(Cos(Mul(t, 3 * ONE)), 10000),
       Home[6] + Mul(t, 5000) >>

lissajous_3d_at(t, a) == lissajous_3d_map(t, lissajous_3d_curve(t, a))

lissajous_3d_wp(i, n, a) == lissajous_3d_at(Progress(i, n, 2, ONE), a)

\* int(self.num_points / 3)
TorusPeriod(n) == n \div 3

\* the loop body of torus_3d divides by int(self.num_points / 3)
TorusRaises(n) == TorusPeriod(n) = 0

\* cv = cos(v), sv = sin(v)
torus_3d_curve(u, cv, sv, a) ==
    Point(Mul(a.scale + Mul(a.minor_radius, cv), Cos(u)),
          Mul(a.scale + Mul(a.minor_radius, cv), Sin(u)),
          Mul(a.minor_radius, sv))

torus_3d_map(u, cv, p) ==
    << Home[1] + Mul(p.x, 50000),
       Home[2] + Mul(p.y, 30000),
       Home[3] + Mul(p.z, 30000),
       Home[4] + Mul(Sin(u), 10000),
       Home[5] + Mul(cv, 10000),
       Home[6] + Mul(u, 10000) >>

torus_3d_uv(u, cv, sv, a) == torus_3d_map(u, cv, torus_3d_curve(u, cv, sv, a))

torus_3d_at(u, v, a) == torus_3d_uv(u, Cos(v), Sin(v), a)

\* v = ((i % int(N / 3)) / int(N / 3)) * 2 * math.pi, for int(N / 3) # 0
torus_3d_wp(i, n, a) ==
    torus_3d_at(Progress(i, n, 2, ONE),
                Mul(Mul(IntDiv(i % TorusPeriod(n), TorusPeriod(n)), 2 * ONE), PI),
                a)

helix_3d_curve(s, c, frac, a) ==
    Point(Mul(a.scale, c), Mul(a.scale, s), Mul(frac, a.pitch))

helix_3d_map(t, s, c, p) ==
    << Home[1] + Mul(p.x, 50000),
       Home[2] + Mul(p.y, 30000),
       Home[3] + Mul(p.z, 50000),
       Home[4] + Mul(s, 15000),
       Home[5] + Mul(c, 15000),
       Home[6] + Mul(t, 5000) >>

helix_3d_at(t, s, c, frac, a) ==
    helix_3d_map(t, s, c, helix_3d_curve(s, c, frac, a))

helix_3d_t(t, frac, a) == helix_3d_at(t, Sin(t), Cos(t), frac, a)

\* t = (i / N) * turns * 2 * math.pi
helix_3d_frac(frac, a) ==
    helix_3d_t(Mul(Mul(Mul(frac, a.turns * ONE), 2 * ONE), PI), frac, a)

helix_3d_wp(i, n, a) == helix_3d_frac(IntDiv(i, n), a)

\* r = amplitude * cos(petals * t), ck = cos(petals * t)
rose_curve_3d_curve(t, s, ck, a) ==
    Point(Mul(Mul(a.scale, ck), Cos(t)),
          Mul(Mul(a.scale, ck), s),
          Mul(Mul(a.scale, s), 50000))

rose_curve_3d_map(t, ck, p) ==
    << Home[1] + Mul(p.x, 50000),
       Home[2] + Mul(p.y, 30000),
       Home[3] + Mul(p.z, 30000),
       Home[4] + Mul(Sin(Mul(t, 2 * ONE)), 10000),
       Home[5] + Mul(ck, 10000),
       Home[6] + Mul(t, 5000) >>

rose_curve_3d_tk(t, s, ck, a) ==
    rose_curve_3d_map(t, ck, rose_curve_3d_curve(t, s, ck, a))

rose_curve_3d_at(t, a) ==
    rose_curve_3d_tk(t, Sin(t), Cos(Mul(a.petals * ONE, t)), a)

rose_curve_3d_wp(i, n, a) == rose_curve_3d_at(Progress(i, n, 2, ONE), a)

(***************************************************************************)
(* Dispatch over the generators                                            *)
(***************************************************************************)
ClosedForm == {"infinity_3d", "circle_pattern", "wave_pattern",
               "spiral_pattern", "heart_pattern", "heart_equation",
               "batman_equation", "infinity_symbol"}

Chaotic == {"lorenz_attractor", "rossler_attractor", "henon_attractor"}

\* the methods of class PatternGenerator that return a trajectory
Generators == ClosedForm \cup Chaotic

\* the methods of class Enhanced3DPatterns
Enhanced == {"box_3d", "lissajous_3d", "torus_3d", "helix_3d", "rose_curve_3d"}

\* the body of a closed-form generator's loop for sample i
ClosedWp(g, i, n, a) ==
    CASE g = "infinity_3d"     -> infinity_3d_wp(i, n, a)
      [] g = "circle_pattern"  -> circle_pattern_wp(i, n, a)
      [] g = "wave_pattern"    -> wave_pattern_wp(i, n, a)
      [] g = "spiral_pattern"  -> spiral_pattern_wp(i, n, a)
      [] g = "heart_pattern"   -> heart_pattern_wp(i, n, a)
      [] g = "heart_equation"  -> heart_equation_wp(i, n, a)
      [] g = "batman_equation" -> batman_equation_wp(i, n, a)
      [] g = "infinity_symbol" -> infinity_symbol_wp(i, n, a)
      [] g = "batman_pattern"  -> batman_pattern_wp(i, n)
      [] g = "box_3d"          -> box_3d_wp(i, n, a)
      [] g = "lissajous_3d"    -> lissajous_3d_wp(i, n, a)
      [] g = "torus_3d"        -> torus_3d_wp(i, n, a)
      [] g = "helix_3d"        -> helix_3d_wp(i, n, a)
      [] g = "rose_curve_3d"   -> rose_curve_3d_wp(i, n, a)

\* the loop body of g raises ZeroDivisionError for loop bound n
LoopRaises(g, n) == g = "torus_3d" /\ TorusRaises(n)

\* the integrator update of a chaotic generator's loop body
ChaoticStep(g, s, a) ==
    CASE g = "lorenz_attractor"  -> lorenz_step(s, a)
      [] g = "rossler_attractor" -> rossler_step(s, a)
      [] g = "henon_attractor"   -> henon_step(s, a)

\* the joint mapping and clamp of a chaotic generator's loop body
ChaoticWp(g, s, i) ==
    CASE g = "lorenz_attractor"  -> lorenz_wp(s, i)
      [] g = "rossler_attractor" -> rossler_wp(s, i)
      [] g = "henon_attractor"   -> henon_wp(s, i)

\* integrator state after k loop iterations
RECURSIVE StateAt(_, _, _)
StateAt(g, a, k) ==
    IF k = 0 THEN InitState(g) ELSE ChaoticStep(g, StateAt(g, a, k - 1), a)

\* the waypoint the loop computes in iteration i
SampleAt(g, a, n, i) ==
    IF g \in Chaotic THEN ChaoticWp(g, StateAt(g, a, i + 1), i)
    ELSE ClosedWp(g, i, n, a)

\* an off-by-one loop bound: range(n - 1)
LoopStopsEarly(i, n) == i < n - 1

\* for i in range(n): the loop runs while i < n
LoopContinues(i, n) == i < n

\* trajectory.append(waypoint)
AppendWaypoint(traj, w) == Append(traj, w)

\* a whole generator call: the list the method returns
RECURSIVE RunFrom(_, _, _, _, _)
RunFrom(g, a, n, i, traj) ==
    IF LoopContinues(i, n)
    THEN RunFrom(g, a, n, i + 1, AppendWaypoint(traj, SampleAt(g, a, n, i)))
    ELSE traj

Run(g, a, n) == RunFrom(g, a, n, 0, <<>>)

(***************************************************************************)
(* Inputs                                                                  *)
(***************************************************************************)
MaxPoints == 3

NumPointsValues == (-1)..MaxPoints

\* scale / radius / amplitude: a recommended value, one far beyond, zero and
\* a negative one
ScaleValues == {-30000, 0, 30000, 500000}

\* speed: the default, a faster pass, and one fast enough for t to carry j6
\* past its clamp
SpeedValues == {ONE, 2 * ONE, 8 * ONE}

ComplexityValues == {ONE, 2 * ONE}

PlaneValues == {"horizontal", "vertical_xz", "vertical_yz"}

NoArgs == [scale |-> 0, speed |-> 0, plane |-> "", wavelength |-> 0,
           height |-> 0, complexity |-> 0, freq_ratio |-> 0,
           minor_radius |-> 0, pitch |-> 0, turns |-> 0, petals |-> 0]

\* the keyword arguments each generator takes (the others stay unused)
ArgsOf(g) ==
    IF g \in Chaotic
    THEN {[NoArgs EXCEPT !.scale = sc, !.complexity = c] :
             sc \in ScaleValues, c \in ComplexityValues}
    ELSE IF g = "circle_pattern"
    THEN {[NoArgs EXCEPT !.scale = sc, !.speed = sp, !.plane = pl] :
             sc \in ScaleValues, sp \in SpeedValues, pl \in PlaneValues}
    ELSE IF g = "wave_pattern"
    THEN {[NoArgs EXCEPT !.scale = sc, !.speed = sp, !.wavelength = w] :
             sc \in ScaleValues, sp \in SpeedValues, w \in {2 * ONE, 4 * ONE}}
    ELSE IF g = "spiral_pattern"
    THEN {[NoArgs EXCEPT !.scale = sc, !.speed = sp, !.height = 40000] :
             sc \in ScaleValues, sp \in SpeedValues}
    ELSE {[NoArgs EXCEPT !.scale = sc, !.speed = sp] :
             sc \in ScaleValues, sp \in SpeedValues}

\* the keyword arguments of the Enhanced3DPatterns methods: the size,
\* amplitude or radius varies, the others keep their defaults
EnhancedArgsOf(g) ==
    {[NoArgs EXCEPT !.scale = sc, !.freq_ratio = 2, !.minor_radius = 10000,
                    !.pitch = 40000, !.turns = 3, !.petals = 5] :
        sc \in ScaleValues}

(***************************************************************************)
(* State                                                                   *)
(***************************************************************************)
VARIABLES
    gpc,              \* position of the generator caller: new / idle / loop
    num_points,       \* self.num_points
    self_trajectory,  \* self.trajectory
    gen,              \* the generator being run
    gargs,            \* its keyword arguments
    n,                \* the bound of its loop
    gi,               \* the loop index i
    st,               \* x, y, z of a chaotic generator
    trajectory,       \* the local list `trajectory`
    ret,              \* what the last call gave its caller
    kept              \* an earlier result the caller still holds

gvars == <<gpc, num_points, self_trajectory, gen, gargs, n, gi, st,
           trajectory, ret>>

NoRet == [kind |-> "none", val |-> <<>>]

\* PatternGenerator.__init__
Construct(np) ==
    /\ gpc = "new"
    /\ num_points' = np
    /\ self_trajectory' = <<>>
    /\ gpc' = "idle"
    /\ UNCHANGED <<gen, gargs, n, gi, st, trajectory, ret>>

\* PatternGenerator.__init__ of a further instance, which the caller uses
\* from now on
NewInstance(np) ==
    /\ gpc = "idle"
    /\ num_points' = np
    /\ self_trajectory' = <<>>
    /\ UNCHANGED <<gpc, gen, gargs, n, gi, st, trajectory, ret>>

\* a generator entry that goes on from the integrator state of the last call
CallGeneratorKeepsState(g, a) ==
    /\ gpc = "idle"
    /\ gen' = g
    /\ gargs' = a
    /\ n' = num_points
    /\ gi' = 0
    /\ st' = st
    /\ trajectory' = <<>>
    /\ ret' = NoRet
    /\ gpc' = "loop"
    /\ UNCHANGED <<num_points, self_trajectory>>

\* a generator entry that goes on appending to the list of the last call
CallGeneratorKeepsList(g, a) ==
    /\ gpc = "idle"
    /\ gen' = g
    /\ gargs' = a
    /\ n' = num_points
    /\ gi' = 0
    /\ st' = InitState(g)
    /\ trajectory' = trajectory
    /\ ret' = NoRet
    /\ gpc' = "loop"
    /\ UNCHANGED <<num_points, self_trajectory>>

\* entry of a generator method: trajectory = [], home position, x, y, z
CallGenerator(g, a) ==
    /\ gpc = "idle"
    /\ gen' = g
    /\ gargs' = a
    /\ n' = num_points
    /\ gi' = 0
    /\ st' = InitState(g)
    /\ trajectory' = <<>>
    /\ ret' = NoRet
    /\ gpc' = "loop"
    /\ UNCHANGED <<num_points, self_trajectory>>

\* entry of TestCode.batman_pattern: np.linspace rejects a negative count
CallBatman(np) ==
    /\ gpc = "idle"
    /\ gen' = "batman_pattern"
    /\ gargs' = NoArgs
    /\ n' = np
    /\ gi' = 0
    /\ st' = InitState("batman_pattern")
    /\ trajectory' = <<>>
    /\ IF np < 0
       THEN ret' = [kind |-> "ValueError", val |-> <<>>] /\ gpc' = "idle"
       ELSE ret' = NoRet /\ gpc' = "loop"
    /\ UNCHANGED <<num_points, self_trajectory>>

\* one iteration of the generator's for loop; an exception ends the call
LoopStep ==
    /\ gpc = "loop"
    /\ LoopContinues(gi, n)
    /\ IF LoopRaises(gen, n)
       THEN /\ ret' = [kind |-> "ZeroDivisionError", val |-> <<>>]
            /\ gpc' = "idle"
            /\ UNCHANGED <<st, trajectory, gi>>
       ELSE /\ IF gen \in Chaotic
               THEN /\ st' = ChaoticStep(gen, st, gargs)
                    /\ trajectory' =
                           AppendWaypoint(trajectory, ChaoticWp(gen, st', gi))
               ELSE /\ st' = st
                    /\ trajectory' =
                           AppendWaypoint(trajectory,
                                          ClosedWp(gen, gi, n, gargs))
            /\ gi' = gi + 1
            /\ UNCHANGED <<gpc, ret>>
    /\ UNCHANGED <<num_points, self_trajectory, gen, gargs, n>>

\* return trajectory
ReturnTrajectory ==
    /\ gpc = "loop"
    /\ ~LoopContinues(gi, n)
    /\ ret' = [kind |-> "value", val |-> trajectory]
    /\ gpc' = "idle"
    /\ UNCHANGED <<num_points, self_trajectory, gen, gargs, n, gi, st,
                   trajectory>>

\* the caller's view of two calls: the first result it holds on to, and
\* whether it has called a different generator since
NoKept == [kind |-> "none", gen |-> "", gargs |-> NoArgs, n |-> 0,
           val |-> <<>>, between |-> FALSE]

\* first = generator.<method>(...)
Keep ==
    /\ gpc = "idle"
    /\ ret.kind = "value"
    /\ kept.kind = "none"
    /\ kept' = [kind |-> "value", gen |-> gen, gargs |-> gargs, n |-> n,
                val |-> ret.val, between |-> FALSE]

\* the caller's record when it calls generator g with arguments a
NoteCall(k, g, a) ==
    IF k.kind = "value" /\ (g # k.gen \/ a # k.gargs)
    THEN [k EXCEPT !.between = TRUE]
    ELSE k

(***************************************************************************)
(* URScript text: a program is a sequence of lines                         *)
(***************************************************************************)
\* a movej keyword argument: a literal, a URScript variable, or left out
Lit(x) == [form |-> "lit", var |-> "", val |-> x]

Ref(x) == [form |-> "var", var |-> x, val |-> 0]

Absent == [form |-> "absent", var |-> "", val |-> 0]

Line(kind, text, q, a, v, r) ==
    [kind |-> kind, text |-> text, q |-> q, a |-> a, v |-> v, r |-> r]

BlankLine == Line("blank", <<>>, <<>>, Absent, Absent, Absent)

CommentLine(text) == Line("comment", text, <<>>, Absent, Absent, Absent)

\* "def <name>():"
DefLine(name) == Line("def", name, <<>>, Absent, Absent, Absent)

\* "  <var> = <value>", the value kept in field a
AssignLine(x, value) == Line("assign", <<x>>, <<>>, Lit(value), Absent, Absent)

MoveLine(q, a, v, r) == Line("movej", <<>>, q, a, v, r)

EndLine == Line("end", <<>>, <<>>, Absent, Absent, Absent)

\* "<name>()"
CallLine(name) == Line("call", name, <<>>, Absent, Absent, Absent)

\* the pattern names a caller may pass
NameInputs == {"infinity", "circle", "Circle", "spiral", "WAVE", "heart",
               "lorenz", "Rossler", "henon", "batman", "zigzag", "Spline"}

\* str.lower()
Lower(name) ==
    CASE name = "Circle"  -> "circle"
      [] name = "WAVE"    -> "wave"
      [] name = "Rossler" -> "rossler"
      [] name = "Spline"  -> "spline"
      [] OTHER            -> name

\* str.upper()
Upper(name) ==
    CASE Lower(name) = "infinity" -> "INFINITY"
      [] Lower(name) = "circle"   -> "CIRCLE"
      [] Lower(name) = "spiral"   -> "SPIRAL"
      [] Lower(name) = "wave"     -> "WAVE"
      [] Lower(name) = "heart"    -> "HEART"
      [] Lower(name) = "lorenz"   -> "LORENZ"
      [] Lower(name) = "rossler"  -> "ROSSLER"
      [] Lower(name) = "henon"    -> "HENON"
      [] Lower(name) = "batman"   -> "BATMAN"
      [] Lower(name) = "zigzag"   -> "ZIGZAG"
      [] Lower(name) = "spline"   -> "SPLINE"
      [] OTHER                    -> name

\* f"execute_{name}_pattern"
BlockName(name) == <<"execute_", name, "_pattern">>

(***************************************************************************)
(* generate_pattern_script: the pattern registry                           *)
(***************************************************************************)
Entry(key, g, a) == [key |-> key, gen |-> g, args |-> a]

\* the keys and generator calls both registries share, in dict order
CommonEntries ==
    << Entry("infinity", "infinity_3d",
             [NoArgs EXCEPT !.scale = 30000, !.speed = ONE]),
       Entry("circle", "circle_pattern",
             [NoArgs EXCEPT !.scale = 30000, !.plane = "horizontal",
                            !.speed = ONE]),
       Entry("spiral", "spiral_pattern",
             [NoArgs EXCEPT !.scale = 30000, !.height = 40000, !.speed = ONE]),
       Entry("wave", "wave_pattern",
             [NoArgs EXCEPT !.scale = 30000, !.wavelength = 4 * ONE,
                            !.speed = ONE]) >>

AttractorEntries(c) ==
    << Entry("lorenz", "lorenz_attractor",
             [NoArgs EXCEPT !.scale = 30000, !.complexity = c]),
       Entry("rossler", "rossler_attractor",
             [NoArgs EXCEPT !.scale = 30000, !.complexity = c]),
       Entry("henon", "henon_attractor",
             [NoArgs EXCEPT !.scale = 30000, !.complexity = c]) >>

\* math_motion: `patterns`; TestCode: `pattern_registry`
Registry(m, c) ==
    IF m = "math_motion"
    THEN CommonEntries
           \o << Entry("heart", "heart_pattern",
                       [NoArgs EXCEPT !.scale = 25000, !.speed = ONE]) >>
           \o AttractorEntries(c)
    ELSE CommonEntries \o AttractorEntries(c)
           \o << Entry("batman", "batman_pattern", NoArgs) >>

Keys(reg) == {reg[k].key : k \in 1..Len(reg)}

EntryOf(reg, key) == reg[CHOOSE k \in 1..Len(reg) : reg[k].key = key]

\* math_motion evaluates every generator call while building the dict;
\* TestCode stores lambdas and calls none
EagerlyInvoked(m, reg) ==
    IF m = "math_motion" THEN [k \in 1..Len(reg) |-> reg[k].gen] ELSE <<>>

\* the trajectory a registry entry yields for num_points = np
EntryTrajectory(e, np) == Run(e.gen, e.args, np)

(***************************************************************************)
(* generate_pattern_script / export_to_urscript: the text they build       *)
(***************************************************************************)
\* the script text before the first movej
HeaderLines(m, name, acc, vel) ==
    IF m = "math_motion"
    THEN << BlankLine,
            CommentLine(<<"# Auto-generated UR Script - ", Upper(name),
                          " Pattern">>),
            DefLine(BlockName(Lower(name))),
            AssignLine("a", acc), AssignLine("v", vel),
            AssignLine("r", 5000),
            BlankLine >>
    ELSE IF m = "TestCode"
    THEN << BlankLine,
            CommentLine(<<"# Auto-generated URScript">>),
            CommentLine(<<"# Pattern: ", Upper(name)>>),
            DefLine(BlockName(Lower(name))),
            AssignLine("a", acc), AssignLine("v", vel),
            AssignLine("r", 5000),
            BlankLine >>
    ELSE << CommentLine(<<"# Auto-generated UR Script from pattern generator">>),
            BlankLine,
            DefLine(<<"execute_pattern">>) >>

\* [round(a, 4) for a in angles]
RoundAngles(angles) == [j \in 1..Len(angles) |-> Round4(angles[j])]

\* the movej line written for one waypoint
MoveFor(m, angles, acc, vel) ==
    IF m = "math_motion"
    THEN MoveLine(RoundAngles(angles), Lit(acc), Lit(vel), Lit(5000))
    ELSE IF m = "TestCode"
    THEN MoveLine(angles, Ref("a"), Ref("v"), Ref("r"))
    ELSE MoveLine(RoundAngles(angles), Lit(acc), Lit(vel), Absent)

\* the block invoked before it is closed
FooterCallFirst(m, name) ==
    << CallLine(IF m = "pattern_generator" THEN <<"execute_pattern">>
                ELSE BlockName(Lower(name))),
       BlankLine, EndLine >>

\* the script text after the last movej
FooterLines(m, name) ==
    IF m = "math_motion"
    THEN << EndLine, BlankLine, CallLine(BlockName(Lower(name))) >>
    ELSE IF m = "TestCode"
    THEN << BlankLine, EndLine, BlankLine, CallLine(BlockName(Lower(name))) >>
    ELSE << EndLine, BlankLine, CallLine(<<"execute_pattern">>) >>

NoResult == [kind |-> "none", script |-> <<>>]

\* what an unregistered name gives the caller: math_motion prints and
\* returns None, TestCode raises ValueError
UnknownResult(m) ==
    IF m = "math_motion" THEN [kind |-> "None", script |-> <<>>]
    ELSE [kind |-> "ValueError", script |-> <<>>]

(***************************************************************************)
(* The executor: __main__ of math_motion.py / TestCode.py, and             *)
(* export_to_urscript as pattern_generator.py's __main__ calls it          *)
(***************************************************************************)
Modules == {"math_motion", "TestCode"}

AccelerationValues == {0, 120000}

VelocityValues == {-60000, 60000}

\* the (IP, port) both modules connect to
ROBOT_IP == "192.168.1.20"

PORT == 30002

\* time.sleep(15)
DWELL == 15

VARIABLES
    ppc,           \* position in the executor
    module,        \* the file whose functions run
    pattern_name,  \* generate_pattern_script's arguments
    count,
    acceleration,
    velocity,
    complexity,
    patterns,      \* the registry, once built
    invoked,       \* generator calls made so far, in order
    traj,          \* the local `trajectory`
    script,        \* the local `script` / the file being written
    mi,            \* index of the next waypoint to serialize
    result,        \* what generate_pattern_script gave its caller
    events,        \* socket and clock calls of send_urscript, in order
    printed,       \* send_urscript's console messages
    sresult        \* how send_urscript ended

pvars == <<ppc, module, pattern_name, count, acceleration, velocity,
           complexity, patterns, invoked, traj, script, mi, result,
           events, printed, sresult>>


genvars == <<pattern_name, count, acceleration, velocity, complexity,
             patterns, invoked, traj, script, mi, result>>

netvars == <<events, printed, sresult>>

\* __main__ calls generate_pattern_script; PatternGenerator(num_points)
CallGenerate(m, name, np, acc, vel, c) ==
    /\ ppc = "start"
    /\ module' = m
    /\ pattern_name' = name
    /\ count' = np
    /\ acceleration' = acc
    /\ velocity' = vel
    /\ complexity' = c
    /\ ppc' = "registry"
    /\ UNCHANGED <<patterns, invoked, traj, script, mi, result>>
    /\ UNCHANGED netvars

\* the dict literal
BuildRegistry ==
    /\ ppc = "registry"
    /\ patterns' = Registry(module, complexity)
    /\ invoked' = EagerlyInvoked(module, patterns')
    /\ ppc' = "lookup"
    /\ UNCHANGED <<module, pattern_name, count, acceleration, velocity,
                   complexity, traj, script, mi, result>>
    /\ UNCHANGED netvars

\* the lookup falls back to an empty trajectory and the script is built
FallThroughUnknown ==
    /\ ppc = "lookup"
    /\ Lower(pattern_name) \notin Keys(patterns)
    /\ traj' = <<>>
    /\ ppc' = "header"
    /\ UNCHANGED <<module, pattern_name, count, acceleration, velocity,
                   complexity, patterns, invoked, script, mi, result>>
    /\ UNCHANGED netvars

\* the name is not a key: no script is built
RejectUnknown ==
    /\ ppc = "lookup"
    /\ Lower(pattern_name) \notin Keys(patterns)
    /\ result' = UnknownResult(module)
    /\ ppc' = IF module = "math_motion" THEN "generated" ELSE "exit"
    /\ UNCHANGED <<module, pattern_name, count, acceleration, velocity,
                   complexity, patterns, invoked, traj, script, mi>>
    /\ UNCHANGED netvars

\* trajectory = patterns[name]: math_motion reads the stored list, TestCode
\* calls the lambda (np.linspace raises for batman with a negative count)
SelectTrajectory ==
    /\ ppc = "lookup"
    /\ Lower(pattern_name) \in Keys(patterns)
    /\ LET e == EntryOf(patterns, Lower(pattern_name))
       IN  /\ invoked' = IF module = "TestCode" THEN Append(invoked, e.gen)
                         ELSE invoked
           /\ IF e.gen = "batman_pattern" /\ count < 0
              THEN /\ result' = [kind |-> "ValueError", script |-> <<>>]
                   /\ ppc' = "exit"
                   /\ traj' = traj
              ELSE /\ traj' = EntryTrajectory(e, count)
                   /\ ppc' = "header"
                   /\ result' = result
    /\ UNCHANGED <<module, pattern_name, count, acceleration, velocity,
                   complexity, patterns, script, mi>>
    /\ UNCHANGED netvars

\* pattern_generator.__main__: a generated trajectory is exported
CallExport(g, a, np, acc, vel) ==
    /\ ppc = "start"
    /\ module' = "pattern_generator"
    /\ pattern_name' = ""
    /\ count' = np
    /\ acceleration' = acc
    /\ velocity' = vel
    /\ complexity' = a.complexity
    /\ invoked' = <<g>>
    /\ traj' = Run(g, a, np)
    /\ ppc' = "header"
    /\ UNCHANGED <<patterns, script, mi, result>>
    /\ UNCHANGED netvars

\* script = f"""...def execute_..._pattern(): ..."""
WriteHeader ==
    /\ ppc = "header"
    /\ script' = HeaderLines(module, pattern_name, acceleration, velocity)
    /\ mi' = 1
    /\ ppc' = "moves"
    /\ UNCHANGED <<module, pattern_name, count, acceleration, velocity,
                   complexity, patterns, invoked, traj, result>>
    /\ UNCHANGED netvars

\* one iteration of `for angles in trajectory`
WriteMove ==
    /\ ppc = "moves"
    /\ mi <= Len(traj)
    /\ script' = Append(script, MoveFor(module, traj[mi], acceleration, velocity))
    /\ mi' = mi + 1
    /\ UNCHANGED <<ppc, module, pattern_name, count, acceleration, velocity,
                   complexity, patterns, invoked, traj, result>>
    /\ UNCHANGED netvars

\* script += "end ... execute_..._pattern()"; return script
WriteFooter ==
    /\ ppc = "moves"
    /\ mi > Len(traj)
    /\ script' = script \o FooterLines(module, pattern_name)
    /\ result' = [kind |-> "script", script |-> script']
    /\ ppc' = IF module = "pattern_generator" THEN "exit" ELSE "generated"
    /\ UNCHANGED <<module, pattern_name, count, acceleration, velocity,
                   complexity, patterns, invoked, traj, mi>>
    /\ UNCHANGED netvars

\* __main__ after generation: math_motion skips a None script, then the
\* operator answers the "Send to robot?" prompt
Confirm(answer) ==
    /\ ppc = "generated"
    /\ ppc' = IF result.kind = "script" /\ answer = "yes" THEN "connect"
              ELSE "exit"
    /\ UNCHANGED <<module>>
    /\ UNCHANGED genvars
    /\ UNCHANGED netvars

(***************************************************************************)
(* send_urscript                                                           *)
(***************************************************************************)
Event(op, arg) == [op |-> op, arg |-> arg]

ConnectOutcomes == {"ok", "ConnectionRefusedError", "TimeoutError"}

SendOutcomes == {"ok", "BrokenPipeError"}

SleepOutcomes == {"ok", "KeyboardInterrupt"}

\* the message the except clause that catches exception e prints
Handler(m, e) ==
    IF m = "math_motion" /\ e = "ConnectionRefusedError"
    THEN "Could not connect" ELSE "ERROR"

\* a connect that is attempted again after it failed
ConnectRetries(o) ==
    /\ ppc = "connect"
    /\ events' = Append(events, Event("connect", <<ROBOT_IP, PORT>>))
    /\ IF o = "ok"
       THEN /\ printed' = Append(printed, "Connected")
            /\ ppc' = "send"
            /\ sresult' = sresult
       ELSE /\ printed' = Append(printed, Handler(module, o))
            /\ ppc' = "connect"
            /\ sresult' = sresult
    /\ UNCHANGED <<module>>
    /\ UNCHANGED genvars

\* s = socket.socket(...); s.connect((ROBOT_IP, PORT))
Connect(o) ==
    /\ ppc = "connect"
    /\ events' = Append(events, Event("connect", <<ROBOT_IP, PORT>>))
    /\ IF o = "ok"
       THEN /\ printed' = Append(printed, "Connected")
            /\ ppc' = "send"
            /\ sresult' = sresult
       ELSE /\ printed' = Append(printed, Handler(module, o))
            /\ ppc' = "exit"
            /\ sresult' = "None"
    /\ UNCHANGED <<module>>
    /\ UNCHANGED genvars

\* a send that discards the caller's program when it fails
SendDropsProgram(o) ==
    /\ ppc = "send"
    /\ events' = Append(events,
                   Event(IF module = "math_motion" THEN "send" ELSE "sendall",
                         <<"utf-8", result.script>>))
    /\ IF o = "ok"
       THEN /\ printed' = Append(printed, "Sent")
            /\ ppc' = "sleep"
            /\ sresult' = sresult
            /\ result' = result
       ELSE /\ printed' = Append(printed, Handler(module, o))
            /\ ppc' = "exit"
            /\ sresult' = "None"
            /\ result' = NoResult
    /\ UNCHANGED <<module, pattern_name, count, acceleration, velocity,
                   complexity, patterns, invoked, traj, script, mi>>

\* s.send(script.encode("utf-8")) / sock.sendall(...)
Send(o) ==
    /\ ppc = "send"
    /\ events' = Append(events,
                   Event(IF module = "math_motion" THEN "send" ELSE "sendall",
                         <<"utf-8", result.script>>))
    /\ IF o = "ok"
       THEN /\ printed' = Append(printed, "Sent")
            /\ ppc' = "sleep"
            /\ sresult' = sresult
       ELSE /\ printed' = Append(printed, Handler(module, o))
            /\ ppc' = "exit"
            /\ sresult' = "None"
    /\ UNCHANGED <<module>>
    /\ UNCHANGED genvars

\* the socket closed before the dwell
CloseBeforeSleep(o) ==
    /\ ppc = "sleep"
    /\ events' = events \o << Event("close", <<>>), Event("sleep", <<DWELL>>) >>
    /\ printed' = Append(printed, "Disconnected")
    /\ sresult' = "None"
    /\ ppc' = "exit"
    /\ UNCHANGED <<module>>
    /\ UNCHANGED genvars

\* time.sleep(15); a KeyboardInterrupt is not an Exception and propagates
Sleep(o) ==
    /\ ppc = "sleep"
    /\ events' = Append(events, Event("sleep", <<DWELL>>))
    /\ IF o = "ok"
       THEN /\ ppc' = "close"
            /\ sresult' = sresult
       ELSE /\ ppc' = "exit"
            /\ sresult' = "KeyboardInterrupt"
    /\ UNCHANGED <<module, printed>>
    /\ UNCHANGED genvars

\* s.close(); the function returns None
Close ==
    /\ ppc = "close"
    /\ events' = Append(events, Event("close", <<>>))
    /\ printed' = Append(printed, "Disconnected")
    /\ sresult' = "None"
    /\ ppc' = "exit"
    /\ UNCHANGED <<module>>
    /\ UNCHANGED genvars

(***************************************************************************)
(* circle.py: a circle in the X-Z plane sent as one moveL path             *)
(***************************************************************************)
\* radius = 0.05, steps = 40
radius == 5000

steps == 40

\* vel = 0.1, acc = 0.2, blend = 0.002
path_vel == 10000

path_acc == 20000

blend == 200

\* poses rtr.getActualTCPPose() may return: x, y, z, rx, ry, rz
PoseValues ==
    { <<-40000, -30000, 50000, 0, 314159, 0>>,
      <<25000, 10000, 30000, 120000, -120000, 0>>,
      <<0, 0, 0, 0, 0, 0>> }

\* what a call into the RTDE interfaces may do
RtdeOutcomes == {"ok", "RuntimeError"}

VARIABLES
    cpc,         \* position in circle.py
    start_pose,  \* start_pose
    path,        \* path
    ci,          \* the loop variable i
    rtde,        \* the calls made on rtc, in order
    cprinted     \* what circle.py printed

cvars == <<cpc, start_pose, path, ci, rtde, cprinted>>

\* rtc = RTDEControlInterface(robot_ip); rtr = RTDEReceiveInterface(robot_ip)
OpenInterfaces(o) ==
    /\ cpc = "start"
    /\ IF o = "ok"
       THEN /\ cpc' = "pose"
            /\ cprinted' = cprinted
       ELSE /\ cpc' = "done"
            /\ cprinted' = Append(cprinted, "Error")
    /\ UNCHANGED <<start_pose, path, ci, rtde>>

\* start_pose = rtr.getActualTCPPose(); path = []
GetActualTCPPose(pose, o) ==
    /\ cpc = "pose"
    /\ IF o = "ok"
       THEN /\ start_pose' = pose
            /\ path' = << >>
            /\ ci' = 0
            /\ cpc' = "loop"
            /\ cprinted' = cprinted \o << "Starting at", "Calculating Path..." >>
       ELSE /\ cpc' = "done"
            /\ cprinted' = Append(cprinted, "Error")
            /\ UNCHANGED <<start_pose, path, ci>>
    /\ UNCHANGED rtde

\* angle = (2 * math.pi * i) / steps
Angle(i) == Div(Mul(2 * ONE, PI) * i, steps * ONE)

\* waypoint[0], waypoint[2] replaced, then vel, acc and the blend appended
CircleWaypoint(pose, i, b) ==
    << pose[1] + Mul(radius, Cos(Angle(i))), pose[2],
       pose[3] + Mul(radius, Sin(Angle(i))), pose[4], pose[5], pose[6],
       path_vel, path_acc, b >>

\* last_point = list(start_pose) + [vel, acc, 0]
LastPoint(pose) == pose \o << path_vel, path_acc, 0 >>

\* one iteration of `for i in range(steps)`
PathStep ==
    /\ cpc = "loop"
    /\ ci < steps
    /\ path' = Append(path, CircleWaypoint(start_pose, ci, blend))
    /\ ci' = ci + 1
    /\ UNCHANGED <<cpc, start_pose, rtde, cprinted>>

\* a closing point that keeps the blend radius of the others
AppendLastBlended ==
    /\ cpc = "loop"
    /\ ci >= steps
    /\ path' = Append(path, start_pose \o << path_vel, path_acc, blend >>)
    /\ cpc' = "move"
    /\ cprinted' = Append(cprinted, "Uploading full path to robot...")
    /\ UNCHANGED <<start_pose, ci, rtde>>

\* the loop is over: path.append(last_point)
AppendLast ==
    /\ cpc = "loop"
    /\ ci >= steps
    /\ path' = Append(path, LastPoint(start_pose))
    /\ cpc' = "move"
    /\ cprinted' = Append(cprinted, "Uploading full path to robot...")
    /\ UNCHANGED <<start_pose, ci, rtde>>

\* rtc.moveL(path)
MoveL(o) ==
    /\ cpc = "move"
    /\ rtde' = Append(rtde, [op |-> "moveL", arg |-> path])
    /\ IF o = "ok"
       THEN /\ cpc' = "stop"
            /\ cprinted' = Append(cprinted, "Path sent!")
       ELSE /\ cpc' = "done"
            /\ cprinted' = Append(cprinted, "Error")
    /\ UNCHANGED <<start_pose, path, ci>>

\* rtc.stopScript()
StopScript(o) ==
    /\ cpc = "stop"
    /\ rtde' = Append(rtde, [op |-> "stopScript", arg |-> << >>])
    /\ cpc' = "done"
    /\ cprinted' = IF o = "ok" THEN cprinted ELSE Append(cprinted, "Error")
    /\ UNCHANGED <<start_pose, path, ci>>

(***************************************************************************)
(* simulate_pattern.py: the replay loop                                    *)
(***************************************************************************)
\* generator = PatternGenerator(num_points=100)
SimPoints == 100

\* the largest waypoint_idx the replay is followed to
MaxReplay == 205

\* the list a closed-form generator returns for num_points = SimPoints: the
\* waypoint of every i in range(num_points), in order
SimRun(g, a) == [k \in 1..SimPoints |-> ClosedWp(g, k - 1, SimPoints, a)]

\* the four entries of `patterns`, built before the choice is looked up
SimPatterns(c) ==
    CASE c = "1" -> SimRun("infinity_3d",
                           [NoArgs EXCEPT !.scale = 40000, !.speed = ONE])
      [] c = "2" -> SimRun("circle_pattern",
                           [NoArgs EXCEPT !.scale = 40000, !.speed = ONE,
                                          !.plane = "horizontal"])
      [] c = "3" -> SimRun("spiral_pattern",
                           [NoArgs EXCEPT !.scale = 30000, !.speed = ONE,
                                          !.height = 50000])
      [] c = "4" -> SimRun("wave_pattern",
                           [NoArgs EXCEPT !.scale = 40000, !.speed = ONE,
                                          !.wavelength = 4 * ONE])

\* the keys of `patterns`
SimKeys == {"1", "2", "3", "4"}

\* what input() may return
ChoiceValues == {"1", "2", "3", "4", "5", ""}

\* readings of the "Speed" slider (0.1 .. 3.0) and the "Pause" slider (0 .. 1)
SpeedReadings == {10000, ONE, 3 * ONE}

PauseReadings == {0, 50000, ONE}

VARIABLES
    rpc,             \* position in simulate_pattern.py
    choice,          \* choice
    sim_trajectory,  \* trajectory
    waypoint_idx,    \* waypoint_idx
    paused,          \* paused
    speed,           \* speed, as read in the last iteration
    pause_state,     \* pause_state, as read in the last iteration
    joints,          \* the position targets of the 6 joint motors
    applied,         \* the list positions of the waypoints applied so far
    sleep_time,      \* sleep_time of the last iteration
    connected,       \* the physics client is connected
    notice           \* the last of "[PAUSED]" / "[RESUMED]" that was printed

rvars == <<rpc, choice, sim_trajectory, waypoint_idx, paused, speed,
           pause_state, joints, applied, sleep_time, connected, notice>>

\* a pause that also engages at a reading of exactly 0.5
PausedAfterInclusive(was, reading) ==
    IF reading >= 50000 /\ ~was THEN TRUE
    ELSE IF reading < 50000 /\ was THEN FALSE
    ELSE was

\* if pause_state > 0.5 and not paused ... elif pause_state < 0.5 and paused
PausedAfter(was, reading) ==
    IF reading > 50000 /\ ~was THEN TRUE
    ELSE IF reading < 50000 /\ was THEN FALSE
    ELSE was

\* a replay that stays on the last waypoint instead of wrapping
WaypointPositionSaturating(idx, len) == IF idx < len THEN idx ELSE len - 1

\* waypoint_idx % len(trajectory)
WaypointPosition(idx, len) == idx % len

\* choice = input(...); the dict is built; an unknown choice disconnects
Choose(c) ==
    /\ rpc = "menu"
    /\ choice' = c
    /\ IF c \in SimKeys
       THEN /\ sim_trajectory' = SimPatterns(c)
            /\ waypoint_idx' = 0
            /\ paused' = FALSE
            /\ rpc' = "run"
            /\ connected' = connected
       ELSE /\ rpc' = "exit"
            /\ connected' = FALSE
            /\ UNCHANGED <<sim_trajectory, waypoint_idx, paused>>
    /\ UNCHANGED <<speed, pause_state, joints, applied, sleep_time, notice>>

\* one iteration of `while True`
ReplayIteration(sp, ps) ==
    /\ rpc = "run"
    /\ waypoint_idx < MaxReplay
    /\ speed' = sp
    /\ pause_state' = ps
    /\ paused' = PausedAfter(paused, ps)
    /\ notice' = IF paused' = paused THEN notice
                 ELSE IF paused' THEN "[PAUSED]" ELSE "[RESUMED]"
    /\ IF ~paused'
       THEN LET pos == WaypointPosition(waypoint_idx, Len(sim_trajectory))
            IN  /\ joints' = SubSeq(sim_trajectory[pos + 1], 1, 6)
                /\ applied' = Append(applied, pos)
                /\ waypoint_idx' = waypoint_idx + 1
       ELSE UNCHANGED <<joints, applied, waypoint_idx>>
    /\ sleep_time' = Div(1000, sp)
    /\ UNCHANGED <<rpc, choice, sim_trajectory, connected>>

\* Ctrl-C during the sleep: except KeyboardInterrupt disconnects
Interrupt ==
    /\ rpc = "run"
    /\ rpc' = "stopped"
    /\ connected' = FALSE
    /\ UNCHANGED <<choice, sim_trajectory, waypoint_idx, paused, speed,
                   pause_state, joints, applied, sleep_time, notice>>

\* the window is closed: reading a slider raises pybullet.error, which no
\* except clause catches
WindowClosed ==
    /\ rpc = "run"
    /\ rpc' = "crashed"
    /\ connected' = FALSE
    /\ UNCHANGED <<choice, sim_trajectory, waypoint_idx, paused, speed,
                   pause_state, joints, applied, sleep_time, notice>>

(***************************************************************************)
(* visualize_patterns.py: PatternVisualizer and main                       *)
(***************************************************************************)
\* main's registry of lambdas: the keys and calls of the seven patterns
VisualizerRegistry(c) == CommonEntries \o AttractorEntries(c)

\* what input() may return for the pattern name
VisualizerNames == {"infinity", "circle", "spiral", "wave", "lorenz",
                    "rossler", "henon", "nosuch"}

\* what a call into pybullet may do
BulletOutcomes == {"ok", "pybullet.error", "KeyboardInterrupt"}

VARIABLES
    vpc,          \* position in main / visualize_pattern
    vtrajectory,  \* main's trajectory
    visualizer,   \* whether main's PatternVisualizer exists
    window,       \* p.isConnected(self.client): the window is open
    vi,           \* the loop variable i of visualize_pattern
    robot,        \* the joint states set by resetJointState
    vapplied,     \* the list positions passed to set_joint_angles, in order
    closes,       \* the number of calls of visualizer.close()
    vprinted,     \* what main and visualize_pattern printed
    vraised       \* the exception that leaves main, if any

zvars == <<vpc, vtrajectory, visualizer, window, vi, robot, vapplied, closes,
           vprinted, vraised>>

\* main up to the generator call: an unknown name returns
Main(name, np, c) ==
    /\ vpc = "start"
    /\ IF \E k \in 1..Len(VisualizerRegistry(c)) :
             VisualizerRegistry(c)[k].key = name
       THEN /\ vtrajectory' =
                   EntryTrajectory(EntryOf(VisualizerRegistry(c), name), np)
            /\ vprinted' = Append(vprinted, "Generated")
            /\ vpc' = "construct"
       ELSE /\ vtrajectory' = vtrajectory
            /\ vprinted' = Append(vprinted, "not found")
            /\ vpc' = "exit"
    /\ UNCHANGED <<visualizer, window, vi, robot, vapplied, closes, vraised>>

\* visualizer = PatternVisualizer(headless=False), outside the try
ConstructVisualizer(o) ==
    /\ vpc = "construct"
    /\ IF o = "ok"
       THEN /\ visualizer' = TRUE
            /\ window' = TRUE
            /\ vpc' = "overlay"
            /\ vraised' = vraised
       ELSE /\ vraised' = o
            /\ vpc' = "exit"
            /\ UNCHANGED <<visualizer, window>>
    /\ UNCHANGED <<vtrajectory, vi, robot, vapplied, closes, vprinted>>

\* the user closes the PyBullet window
WindowCloses ==
    /\ vpc \in {"overlay", "loop", "inspect"}
    /\ window
    /\ window' = FALSE
    /\ UNCHANGED <<vpc, vtrajectory, visualizer, vi, robot, vapplied, closes,
                   vprinted, vraised>>

\* an exception out of visualize_pattern: `except Exception` prints it,
\* a KeyboardInterrupt passes through; `finally` runs in both cases
Raised(o) ==
    /\ vprinted' = IF o = "pybullet.error"
                   THEN Append(vprinted, "Error during visualization")
                   ELSE vprinted
    /\ vraised' = IF o = "KeyboardInterrupt" THEN o ELSE vraised
    /\ vpc' = "finally"

\* visualize_pattern before its try: the two p.addUserDebugText calls
AddOverlay(o) ==
    /\ vpc = "overlay"
    /\ IF o = "ok" /\ window
       THEN /\ vpc' = "loop"
            /\ vi' = 0
            /\ UNCHANGED <<vprinted, vraised>>
       ELSE /\ Raised(IF o = "ok" THEN "pybullet.error" ELSE o)
            /\ vi' = vi
    /\ UNCHANGED <<vtrajectory, visualizer, window, robot, vapplied, closes>>

\* an iteration that does not ask whether the client is connected
VisualizeStepUnchecked(o, early) ==
    /\ vpc = "loop"
    /\ vi < Len(vtrajectory)
    /\ robot' = SubSeq(vtrajectory[vi + 1], 1, 6)
    /\ vapplied' = Append(vapplied, vi)
    /\ vi' = vi + 1
    /\ UNCHANGED <<vpc, vprinted, vraised>>
    /\ UNCHANGED <<vtrajectory, visualizer, window, closes>>

\* one iteration of `for i, angles in enumerate(trajectory)`; a call into
\* pybullet that fails does so before (early) or after set_joint_angles
VisualizeStep(o, early) ==
    /\ vpc = "loop"
    /\ vi < Len(vtrajectory)
    /\ IF ~window
       THEN /\ vprinted' = Append(vprinted, "Visualization stopped")
            /\ vpc' = "finally"
            /\ UNCHANGED <<robot, vapplied, vi, vraised>>
       ELSE /\ IF o # "ok" /\ early
               THEN UNCHANGED <<robot, vapplied>>
               ELSE /\ robot' = SubSeq(vtrajectory[vi + 1], 1, 6)
                    /\ vapplied' = Append(vapplied, vi)
            /\ IF o = "ok"
               THEN /\ vi' = vi + 1
                    /\ UNCHANGED <<vpc, vprinted, vraised>>
               ELSE IF o = "KeyboardInterrupt"
               THEN /\ vprinted' = Append(vprinted, "Visualization interrupted")
                    /\ vpc' = "finally"
                    /\ UNCHANGED <<vi, vraised>>
               ELSE /\ Raised(o)
                    /\ vi' = vi
    /\ UNCHANGED <<vtrajectory, visualizer, window, closes>>

\* the loop is over: "Visualization complete!"
LoopComplete ==
    /\ vpc = "loop"
    /\ vi >= Len(vtrajectory)
    /\ vprinted' = Append(vprinted, "Visualization complete!")
    /\ vpc' = "inspect"
    /\ UNCHANGED <<vtrajectory, visualizer, window, vi, robot, vapplied,
                   closes, vraised>>

\* while p.isConnected(self.client): stepSimulation; sleep -- left when the
\* window is closed or a call is interrupted or fails
Inspect(o) ==
    /\ vpc = "inspect"
    /\ IF ~window
       THEN /\ vpc' = "finally"
            /\ UNCHANGED <<vprinted, vraised>>
       ELSE /\ o # "ok"
            /\ IF o = "KeyboardInterrupt"
               THEN /\ vprinted' = Append(vprinted, "Visualization interrupted")
                    /\ vpc' = "finally"
                    /\ vraised' = vraised
               ELSE Raised(o)
    /\ UNCHANGED <<vtrajectory, visualizer, window, vi, robot, vapplied,
                   closes>>

\* finally: visualizer.close(); p.disconnect() raises if the client is gone
VisualizerClose ==
    /\ vpc = "finally"
    /\ closes' = closes + 1
    /\ IF window
       THEN /\ vprinted' = Append(vprinted, "Done!")
            /\ vraised' = vraised
       ELSE /\ vprinted' = vprinted
            /\ vraised' = "pybullet.error"
    /\ window' = FALSE
    /\ vpc' = "exit"
    /\ UNCHANGED <<vtrajectory, visualizer, vi, robot, vapplied>>

\* the state of the programs that the generator and executor specifications
\* leave alone
auxvars == <<cvars, rvars, zvars>>

vars == <<gpc, num_points, self_trajectory, gen, gargs, n, gi, st,
          trajectory, ret, kept, ppc, module, pattern_name, count, acceleration,
          velocity, complexity, patterns, invoked, traj, script, mi, result,
          events, printed, sresult, auxvars>>


(***************************************************************************)
(* Specifications                                                          *)
(***************************************************************************)
Init ==
    /\ gpc = "new"
    /\ num_points = 0
    /\ self_trajectory = <<>>
    /\ gen = ""
    /\ gargs = NoArgs
    /\ n = 0
    /\ gi = 0
    /\ st = Point(0, 0, 0)
    /\ trajectory = <<>>
    /\ ret = NoRet
    /\ kept = NoKept
    /\ ppc = "start"
    /\ module = ""
    /\ pattern_name = ""
    /\ count = 0
    /\ acceleration = 0
    /\ velocity = 0
    /\ complexity = 0
    /\ patterns = <<>>
    /\ invoked = <<>>
    /\ traj = <<>>
    /\ script = <<>>
    /\ mi = 0
    /\ result = NoResult
    /\ events = <<>>
    /\ printed = <<>>
    /\ sresult = "none"
    /\ cpc = "start"
    /\ start_pose = << >>
    /\ path = << >>
    /\ ci = 0
    /\ rtde = << >>
    /\ cprinted = << >>
    /\ rpc = "menu"
    /\ choice = ""
    /\ sim_trajectory = << >>
    /\ waypoint_idx = 0
    /\ paused = FALSE
    /\ speed = ONE
    /\ pause_state = 0
    /\ joints = << >>
    /\ applied = << >>
    /\ sleep_time = 0
    /\ connected = TRUE
    /\ notice = ""
    /\ vpc = "start"
    /\ vtrajectory = << >>
    /\ visualizer = FALSE
    /\ window = FALSE
    /\ vi = 0
    /\ robot = << >>
    /\ vapplied = << >>
    /\ closes = 0
    /\ vprinted = << >>
    /\ vraised = "none"

\* generator calls on one PatternGenerator instance, and batman_pattern
NextGen ==
    \/ \E np \in NumPointsValues : Construct(np) /\ UNCHANGED <<pvars, kept, auxvars>>
    \/ \E g \in Generators : \E a \in ArgsOf(g) :
           CallGenerator(g, a) /\ UNCHANGED <<pvars, kept, auxvars>>
    \/ \E np \in NumPointsValues : CallBatman(np) /\ UNCHANGED <<pvars, kept, auxvars>>
    \/ \E g \in Enhanced : \E a \in EnhancedArgsOf(g) :
           CallGenerator(g, a) /\ UNCHANGED <<pvars, kept, auxvars>>
    \/ LoopStep /\ UNCHANGED <<pvars, kept, auxvars>>
    \/ ReturnTrajectory /\ UNCHANGED <<pvars, kept, auxvars>>

SpecGen == Init /\ [][NextGen]_vars

\* one run of an executor: generate, serialize, confirm, send
Next ==
    \/ \E m \in Modules, name \in NameInputs, np \in NumPointsValues,
          acc \in AccelerationValues, vel \in VelocityValues :
           CallGenerate(m, name, np, acc, vel, ONE) /\ UNCHANGED <<gvars, kept, auxvars>>
    \/ BuildRegistry /\ UNCHANGED <<gvars, kept, auxvars>>
    \/ RejectUnknown /\ UNCHANGED <<gvars, kept, auxvars>>
    \/ SelectTrajectory /\ UNCHANGED <<gvars, kept, auxvars>>
    \/ \E g \in {"infinity_3d", "heart_equation"}, np \in NumPointsValues,
          acc \in AccelerationValues, vel \in VelocityValues :
           CallExport(g, [NoArgs EXCEPT !.scale = 30000, !.speed = ONE],
                      np, acc, vel) /\ UNCHANGED <<gvars, kept, auxvars>>
    \/ WriteHeader /\ UNCHANGED <<gvars, kept, auxvars>>
    \/ WriteMove /\ UNCHANGED <<gvars, kept, auxvars>>
    \/ WriteFooter /\ UNCHANGED <<gvars, kept, auxvars>>
    \/ \E answer \in {"yes", "no"} : Confirm(answer) /\ UNCHANGED <<gvars, kept, auxvars>>
    \/ \E o \in ConnectOutcomes : Connect(o) /\ UNCHANGED <<gvars, kept, auxvars>>
    \/ \E o \in SendOutcomes : Send(o) /\ UNCHANGED <<gvars, kept, auxvars>>
    \/ \E o \in SleepOutcomes : Sleep(o) /\ UNCHANGED <<gvars, kept, auxvars>>
    \/ Close /\ UNCHANGED <<gvars, kept, auxvars>>

Spec == Init /\ [][Next]_vars

\* the sample count of the numerical stability run
LongRun == 500

\* complexity = 1.0, with a recommended scale and one far beyond
LongArgs(g) == {a \in ArgsOf(g) : a.complexity = ONE /\ a.scale > 0}

\* the chaotic generators run for LongRun samples
NextLong ==
    \/ Construct(LongRun) /\ UNCHANGED <<pvars, kept, auxvars>>
    \/ \E g \in Chaotic : \E a \in LongArgs(g) :
           CallGenerator(g, a) /\ UNCHANGED <<pvars, kept, auxvars>>
    \/ LoopStep /\ UNCHANGED <<pvars, kept, auxvars>>
    \/ ReturnTrajectory /\ UNCHANGED <<pvars, kept, auxvars>>

SpecLong == Init /\ [][NextLong]_vars

\* the arguments of the repeated calls
RepeatArgs(g) ==
    {a \in ArgsOf(g) : /\ a.scale \in {30000, 500000}
                       /\ a.speed \in {0, ONE}
                       /\ a.complexity \in {0, ONE}
                       /\ a.wavelength \in {0, 2 * ONE}}

\* a caller that keeps one result and goes on calling generators, on the
\* same instance or on a new one
NextRepeat ==
    \/ \E np \in 1..MaxPoints : Construct(np) /\ UNCHANGED <<pvars, kept, auxvars>>
    \/ \E np \in 1..MaxPoints : NewInstance(np) /\ UNCHANGED <<pvars, kept, auxvars>>
    \/ \E g \in Generators : \E a \in RepeatArgs(g) :
           CallGenerator(g, a) /\ kept' = NoteCall(kept, g, a)
                               /\ UNCHANGED <<pvars, auxvars>>
    \/ LoopStep /\ UNCHANGED <<pvars, kept, auxvars>>
    \/ ReturnTrajectory /\ UNCHANGED <<pvars, kept, auxvars>>
    \/ Keep /\ UNCHANGED <<gvars, pvars, auxvars>>

SpecRepeat == Init /\ [][NextRepeat]_vars

\* one run of circle.py
NextCircle ==
    \/ \E o \in RtdeOutcomes :
           OpenInterfaces(o) /\ UNCHANGED <<gvars, pvars, kept, rvars, zvars>>
    \/ \E pose \in PoseValues, o \in RtdeOutcomes :
           GetActualTCPPose(pose, o) /\ UNCHANGED <<gvars, pvars, kept, rvars, zvars>>
    \/ PathStep /\ UNCHANGED <<gvars, pvars, kept, rvars, zvars>>
    \/ AppendLast /\ UNCHANGED <<gvars, pvars, kept, rvars, zvars>>
    \/ \E o \in RtdeOutcomes : MoveL(o) /\ UNCHANGED <<gvars, pvars, kept, rvars, zvars>>
    \/ \E o \in RtdeOutcomes : StopScript(o) /\ UNCHANGED <<gvars, pvars, kept, rvars, zvars>>

SpecCircle == Init /\ [][NextCircle]_vars

\* one run of simulate_pattern.py
NextReplay ==
    \/ \E c \in ChoiceValues :
           Choose(c) /\ UNCHANGED <<gvars, pvars, kept, cvars, zvars>>
    \/ \E sp \in SpeedReadings, ps \in PauseReadings :
           ReplayIteration(sp, ps) /\ UNCHANGED <<gvars, pvars, kept, cvars, zvars>>
    \/ Interrupt /\ UNCHANGED <<gvars, pvars, kept, cvars, zvars>>
    \/ WindowClosed /\ UNCHANGED <<gvars, pvars, kept, cvars, zvars>>

SpecReplay == Init /\ [][NextReplay]_vars

\* one run of visualize_patterns.main
NextVisualizer ==
    \/ \E name \in VisualizerNames, np \in NumPointsValues :
           Main(name, np, ONE) /\ UNCHANGED <<gvars, pvars, kept, cvars, rvars>>
    \/ \E o \in BulletOutcomes :
           ConstructVisualizer(o) /\ UNCHANGED <<gvars, pvars, kept, cvars, rvars>>
    \/ WindowCloses /\ UNCHANGED <<gvars, pvars, kept, cvars, rvars>>
    \/ \E o \in BulletOutcomes :
           AddOverlay(o) /\ UNCHANGED <<gvars, pvars, kept, cvars, rvars>>
    \/ \E o \in BulletOutcomes, early \in BOOLEAN :
           VisualizeStep(o, early) /\ UNCHANGED <<gvars, pvars, kept, cvars, rvars>>
    \/ LoopComplete /\ UNCHANGED <<gvars, pvars, kept, cvars, rvars>>
    \/ \E o \in BulletOutcomes :
           Inspect(o) /\ UNCHANGED <<gvars, pvars, kept, cvars, rvars>>
    \/ VisualizerClose /\ UNCHANGED <<gvars, pvars, kept, cvars, rvars>>

SpecVisualizer == Init /\ [][NextVisualizer]_vars

(***************************************************************************)
(* Properties                                                              *)
(***************************************************************************)
\* the admissible interval of each joint
InLimits(w) ==
    /\ \A j \in {1, 2, 4, 5, 6} : w[j] >= -314000 /\ w[j] <= 314000
    /\ w[3] >= 50000 /\ w[3] <= 250000

\* positions of the lines of one kind in a program
LinesOf(prog, kind) == {k \in 1..Len(prog) : prog[k].kind = kind}

\* the movej lines of a program, in order
RECURSIVE MovesOf(_)
MovesOf(prog) ==
    IF prog = <<>> THEN <<>>
    ELSE IF Head(prog).kind = "movej" THEN <<Head(prog)>> \o MovesOf(Tail(prog))
    ELSE MovesOf(Tail(prog))

\* the value the controller uses for the blend radius of line k: a literal,
\* the latest assignment to the variable named, or URScript's default 0
BlendOf(prog, k) ==
    LET p == prog[k].r
    IN  IF p.form = "lit" THEN p.val
        ELSE IF p.form = "absent" THEN 0
        ELSE LET as == {j \in 1..(k - 1) :
                           prog[j].kind = "assign" /\ prog[j].text = <<p.var>>}
                 last == CHOOSE j \in as : \A h \in as : h <= j
             IN  prog[last].a.val

\* C1: every waypoint a PatternGenerator method produces has j1, j2, j4, j5,
\* j6 in [-3.14, 3.14] and j3 in [0.5, 2.5], whatever the scale, radius,
\* amplitude or speed.
C1_JointsWithinLimits ==
    gen \in Generators =>
        \A k \in 1..Len(trajectory) : InLimits(trajectory[k])

\* C2: in the program generate_pattern_script returns, a movej has blend
\* radius zero if and only if it is the last movej.
C2_BlendZeroOnlyOnLast ==
    (result.kind = "script" /\ module \in Modules) =>
        LET moves == LinesOf(result.script, "movej")
        IN  \A k \in moves :
                (BlendOf(result.script, k) = 0) <=> (\A h \in moves : h <= k)

\* C3: a sample count <= 0 is rejected: generate_pattern_script returns no
\* motion program for it.
C3_NonPositiveCountRejected ==
    (result.kind = "script" /\ module \in Modules) => count >= 1

\* C4: for a name that is not in the registry the caller gets the error
\* (None from math_motion, ValueError from TestCode) and no program text at
\* all, and nothing is sent.
C4_UnknownPatternNoProgram ==
    (module \in Modules /\ ppc \notin {"start", "registry", "lookup"}
       /\ Lower(pattern_name) \notin Keys(patterns)) =>
        /\ result.kind = (IF module = "math_motion" THEN "None" ELSE "ValueError")
        /\ result.script = <<>>
        /\ script = <<>>
        /\ events = <<>>

C4_Witness ==
    /\ module = "math_motion"
    /\ pattern_name = "zigzag"
    /\ ppc = "exit"
    /\ result.kind = "None"

\* C5: the program has exactly one movej per waypoint, in trajectory order,
\* the i-th carrying the 6 joint values of waypoint i rounded to 4 decimals.
C5_MovesCarryRoundedWaypoints ==
    result.kind = "script" =>
        LET moves == MovesOf(result.script)
        IN  /\ Len(moves) = Len(traj)
            /\ \A k \in 1..Len(moves) :
                   /\ Len(moves[k].q) = 6
                   /\ \A j \in 1..6 : moves[k].q[j] = Round4(traj[k][j])

\* C6: for N >= 1 a generator returns exactly N waypoints of 6 joint values,
\* the waypoint of sample i at position i.
C6_TrajectoryShape ==
    (gpc = "idle" /\ ret.kind = "value" /\ n >= 1) =>
        /\ Len(ret.val) = n
        /\ \A k \in 1..Len(ret.val) :
               /\ Len(ret.val[k]) = 6
               /\ ret.val[k] = SampleAt(gen, gargs, n, k - 1)

C6_Witness ==
    /\ gpc = "idle"
    /\ ret.kind = "value"
    /\ gen \in Chaotic
    /\ n >= 2
    /\ Len(ret.val) = n

\* C7: a program for pattern P is: one header def execute_<lower(P)>_pattern,
\* then the moves, then one end, then one invocation of the same block.
C7_ProgramLineOrder ==
    result.kind = "script" =>
        LET prog  == result.script
            defs  == LinesOf(prog, "def")
            ends  == LinesOf(prog, "end")
            calls == LinesOf(prog, "call")
            moves == LinesOf(prog, "movej")
        IN  /\ Cardinality(defs) = 1
            /\ Cardinality(ends) = 1
            /\ Cardinality(calls) = 1
            /\ \A d \in defs, e \in ends, c \in calls :
                   /\ d < e /\ e < c
                   /\ prog[c].text = prog[d].text
                   /\ module \in Modules =>
                          prog[d].text = <<"execute_", Lower(pattern_name),
                                           "_pattern">>
                   /\ \A m \in moves : d < m /\ m < e

C7_Witness ==
    /\ result.kind = "script"
    /\ module = "TestCode"
    /\ pattern_name = "WAVE"
    /\ Cardinality(LinesOf(result.script, "movej")) >= 2

C9_ConnectFailureVisible ==
    (ppc = "exit" /\ Len(events) = 1) => sresult = "ConnectionError"

\* C10: no program is produced when velocity <= 0 or acceleration <= 0.
C10_NonPositiveSpeedRejected ==
    result.kind = "script" => (velocity > 0 /\ acceleration > 0)

\* C11: a curve generator of PatternGenerator returns no trajectory when its
\* scale / radius / amplitude argument is <= 0.
C11_NonPositiveScaleRejected ==
    (gen \in Generators /\ ret.kind = "value") => gargs.scale > 0

\* the radius a chaotic generator rescales its state to
TargetRadius(g, a) ==
    CASE g = "lorenz_attractor"  -> Mul(a.scale, 10 * ONE)
      [] g = "rossler_attractor" -> Mul(a.scale, 8 * ONE)
      [] g = "henon_attractor"   -> a.scale

\* sqrt(x^2 + y^2 + z^2)
Magnitude(s) == Sqrt(Sq(s.x) + Sq(s.y) + Sq(s.z))

\* C12: after the renormalization of every sample of a chaotic generator,
\* the magnitude of (x, y, z) equals the target radius: scale * 10 for
\* Lorenz, scale * 8 for Rossler, scale for Henon (within 5e-4).
C12_MagnitudeIsTargetRadius ==
    (gen \in Chaotic /\ gi >= 1 /\ gargs.scale > 0) =>
        Abs(Magnitude(st) - TargetRadius(gen, gargs)) <= 50

\* C13: a closed-form generator called again with the same num_points and
\* the same arguments, on the same or on another instance and whatever was
\* called in between, returns the trajectory the first call returned.
C13_SameCallSameTrajectory ==
    (/\ kept.kind = "value" /\ kept.gen \in ClosedForm
     /\ gpc = "idle" /\ ret.kind = "value"
     /\ gen = kept.gen /\ gargs = kept.gargs /\ n = kept.n) =>
        ret.val = kept.val

\* a second call of the kept generator has run its loop to the end after a
\* different generator was called in between
C13_Witness ==
    /\ kept.kind = "value" /\ kept.gen \in ClosedForm /\ kept.between
    /\ gpc = "loop" /\ gi = n /\ n >= 2
    /\ gen = kept.gen /\ gargs = kept.gargs /\ n = kept.n
    /\ trajectory = kept.val

\* C14: for circle_pattern in the horizontal plane, with any radius r and
\* any N >= 1, waypoint 0 has j1 = 0.0 + 0.8 * r and j2 = -1.57 exactly;
\* for r = 0.3 that is j1 = 0.24.
C14_CircleStartsAtHome ==
    (/\ gen = "circle_pattern" /\ gargs.plane = "horizontal"
     /\ n >= 1 /\ Len(trajectory) >= 1) =>
        /\ trajectory[1][1] = 0 + Mul(gargs.scale, 80000)
        /\ trajectory[1][2] = -157000
        /\ (gargs.scale = 30000 => trajectory[1][1] = 24000)

C14_Witness ==
    /\ gen = "circle_pattern" /\ gargs.plane = "horizontal"
    /\ gargs.scale = 30000 /\ n >= 2 /\ Len(trajectory) = n
    /\ trajectory[1][1] = 24000 /\ trajectory[1][2] = -157000

\* C18: for N >= 1 and a positive size, every generator of PatternGenerator
\* and of Enhanced3DPatterns ends after exactly N loop iterations and returns
\* a trajectory of N waypoints; no call ends with an exception.
C18_GenerationTotal ==
    (/\ gpc = "idle" /\ gen \in Generators \cup Enhanced
     /\ n >= 1 /\ gargs.scale > 0) =>
        /\ ret.kind = "value"
        /\ gi = n
        /\ Len(ret.val) = n

\* C15: a chaotic generator run with complexity = 1.0 for 500 samples
\* completes all 500 samples without raising, and every joint value of every
\* waypoint is inside its clamp interval.
C15_LongChaoticRunStaysClamped ==
    (gen \in Chaotic /\ gargs.complexity = ONE /\ n = LongRun) =>
        /\ ret.kind \in {"none", "value"}
        /\ \A k \in 1..Len(trajectory) : InLimits(trajectory[k])
        /\ gpc = "idle" =>
               /\ ret.kind = "value"
               /\ gi = LongRun
               /\ Len(ret.val) = LongRun
               /\ \A k \in 1..Len(ret.val) : InLimits(ret.val[k])

\* a finished 500-sample run in which the clamp has pinned a joint
C15_Witness ==
    /\ gpc = "idle" /\ gen \in Chaotic /\ gargs.complexity = ONE
    /\ n = LongRun /\ ret.kind = "value" /\ Len(ret.val) = LongRun
    /\ \E k \in 1..Len(ret.val) : ret.val[k][1] \in {-314000, 314000}

\* the events of one kind among those a send_urscript call has performed
EventsOf(ops) == {k \in 1..Len(events) : events[k].op \in ops}

\* the call has reported a failure: its last message is an except clause's
Failed ==
    printed # <<>> /\ printed[Len(printed)] \in {"Could not connect", "ERROR"}

\* C16: one send_urscript call makes at most one connect attempt and at most
\* one send attempt; after a failed connect or a failed send the call has
\* ended, the failed operation being the last thing it did.
C16_NoRetry ==
    /\ Cardinality(EventsOf({"connect"})) <= 1
    /\ Cardinality(EventsOf({"send", "sendall"})) <= 1
    /\ Failed =>
           /\ ppc = "exit"
           /\ events # <<>>
           /\ events[Len(events)].op \in {"connect", "send", "sendall"}

\* a call ended by a failed send after a successful connect
C16_Witness ==
    /\ Failed /\ ppc = "exit" /\ Len(events) = 2
    /\ events[1].op = "connect"
    /\ events[2].op \in {"send", "sendall"}

\* C17: no step of send_urscript, failed or not, changes the program the
\* caller built: the text it holds after the call is the text it passed in.
C17_TransportKeepsProgram ==
    [][(ppc \in {"connect", "send", "sleep", "close"}) => (result' = result)]_vars

\* a call ended by a transport failure with the program still in hand
C17_Witness ==
    /\ Failed /\ ppc = "exit"
    /\ result.kind = "script" /\ Len(result.script) > 0
    /\ events # <<>>
    /\ events[Len(events)].arg \in {<<ROBOT_IP, PORT>>, <<"utf-8", result.script>>}

\* the generators that end their loop body with the "Safety clamps" block
Clamped == Chaotic \cup {"heart_equation", "batman_equation", "infinity_symbol"}

\* j1 .. j6 of the sample the loop appended last, before the clamps
RawLast ==
    CASE gen = "lorenz_attractor"  -> lorenz_joints(st, gi - 1)
      [] gen = "rossler_attractor" -> rossler_joints(st, gi - 1)
      [] gen = "henon_attractor"   -> henon_joints(st, gi - 1)
      [] gen = "heart_equation"    -> heart_equation_raw(gi - 1, n, gargs)
      [] gen = "batman_equation"   -> batman_equation_raw(gi - 1, n, gargs)
      [] gen = "infinity_symbol"   -> infinity_symbol_raw(gi - 1, n, gargs)

\* v pinned to [lo, hi]
Saturated(lo, hi, v) == IF v < lo THEN lo ELSE IF v > hi THEN hi ELSE v

\* the interval of joint j
LowerLimit(j) == IF j = 3 THEN 50000 ELSE -314000

UpperLimit(j) == IF j = 3 THEN 250000 ELSE 314000

\* C19: each joint of a clamped generator's waypoint is the unclamped value
\* when that lies in the joint's interval, the lower bound when it is below
\* and the upper bound when it is above, the interval being [-3.14, 3.14]
\* for j1, j2, j4, j5, j6 and [0.5, 2.5] for j3; clamping the waypoint
\* again changes nothing.
C19_ClampSaturates ==
    (gen \in Clamped /\ gi >= 1 /\ Len(trajectory) = gi) =>
        /\ \A j \in 1..6 :
               trajectory[gi][j] =
                   Saturated(LowerLimit(j), UpperLimit(j), RawLast[j])
        /\ SafetyClamp(trajectory[gi]) = trajectory[gi]

\* a waypoint with one joint pinned to its upper bound, one pinned to its
\* lower bound and one left as computed
C19_Witness ==
    /\ gen \in Clamped /\ gi >= 1 /\ Len(trajectory) = gi
    /\ \E j \in 1..6 : RawLast[j] > UpperLimit(j)
                        /\ trajectory[gi][j] = UpperLimit(j)
    /\ \E j \in 1..6 : RawLast[j] < LowerLimit(j)
                        /\ trajectory[gi][j] = LowerLimit(j)
    /\ \E j \in 1..6 : RawLast[j] > LowerLimit(j) /\ RawLast[j] < UpperLimit(j)
                        /\ trajectory[gi][j] = RawLast[j]

\* C20: every generator builds its waypoints on the one home posture
\* [0.0, -1.57, 1.57, 0.0, 1.57, 0.0]: at sample 0, where the deltas of j4
\* and j6 are zero, the closed-form generators give the home values of j4
\* and j6, and batman_pattern, which has no delta on j4, j5 and j6, gives
\* their home values at every sample.
C20_HomePostureShared ==
    /\ Home = <<0, -157000, 157000, 0, 157000, 0>>
    /\ (gen \in ClosedForm \cup Enhanced /\ Len(trajectory) >= 1) =>
           trajectory[1][4] = Home[4] /\ trajectory[1][6] = Home[6]
    /\ gen = "batman_pattern" =>
           \A k \in 1..Len(trajectory) :
               \A j \in 4..6 : trajectory[k][j] = Home[j]

\* the progress parameter t of sample i of a closed-form generator
ParamAt(g, i, np, a) ==
    CASE g = "wave_pattern"   -> wave_pattern_t(IntDiv(i, np), a)
      [] g = "spiral_pattern" -> Progress(i, np, 4, a.speed)
      [] OTHER                -> Progress(i, np, 2, a.speed)

\* the end of the domain of t: the value of t at i / N = 1
DomainEnd(g, a) ==
    CASE g = "wave_pattern"   -> wave_pattern_t(ONE, a)
      [] g = "spiral_pattern" -> Mul(Mul(4 * ONE, PI), a.speed)
      [] OTHER                -> Mul(Mul(2 * ONE, PI), a.speed)

\* C21: in one pass of a closed-form generator with speed > 0, t starts at
\* the start of its domain, grows by the same amount from each sample to the
\* next, and reaches the end of its domain (2 * pi * speed for the
\* 2*pi-periodic curves) at the last sample (equalities within 1e-3).
C21_ProgressSpansDomain ==
    (gen \in ClosedForm /\ n >= 1 /\ gargs.speed > 0 /\ gi = n) =>
        /\ ParamAt(gen, 0, n, gargs) = 0
        /\ \A i \in 0..(n - 2) :
               ParamAt(gen, i + 1, n, gargs) > ParamAt(gen, i, n, gargs)
        /\ \A i, j \in 0..(n - 2) :
               Abs((ParamAt(gen, i + 1, n, gargs) - ParamAt(gen, i, n, gargs))
                   - (ParamAt(gen, j + 1, n, gargs) - ParamAt(gen, j, n, gargs)))
                 <= 100
        /\ Abs(ParamAt(gen, n - 1, n, gargs) - DomainEnd(gen, gargs)) <= 100

\* C22: generate_pattern_script invokes no generator before the name is
\* looked up, invokes exactly the generator of the requested pattern when
\* the name is known, and invokes none when the name is rejected.
C22_OnlyRequestedGeneratorRuns ==
    (module \in Modules /\ ppc \notin {"start", "registry"}) =>
        IF Lower(pattern_name) \in Keys(patterns) /\ ppc # "lookup"
        THEN invoked = << EntryOf(patterns, Lower(pattern_name)).gen >>
        ELSE invoked = << >>

\* C23: when send_urscript has returned or raised after its connect
\* succeeded, the connection was closed exactly once, also when the send or
\* the dwell raised; and it is never closed more than once.
C23_ConnectionAlwaysClosed ==
    /\ Cardinality(EventsOf({"close"})) <= 1
    /\ (ppc = "exit" /\ \E k \in 1..Len(printed) : printed[k] = "Connected")
          => Cardinality(EventsOf({"close"})) = 1

\* the state one forward-Euler step with dt = 0.01 leaves, every derivative
\* taken at the state s the step starts from
EulerFromOld(s, dx, dy, dz) ==
    [x |-> s.x + Mul(dx, 1000), y |-> s.y + Mul(dy, 1000),
     z |-> s.z + Mul(dz, 1000)]

\* the state the claim says a chaotic generator carries out of a sample that
\* began in state s: Lorenz and Rossler renormalise one Euler step; Henon
\* takes x_new and y_new from the old (x, y), z_new from the new pair, then
\* clamps to [-1, 1] and scales
CarriedState(g, s, a) ==
    CASE g = "lorenz_attractor" ->
           Normalize(EulerFromOld(s,
                        Mul(10 * ONE, s.y - s.x),
                        Mul(s.x, Mul(28 * ONE, a.complexity) - s.z) - s.y,
                        Mul(s.x, s.y) - Mul(Div(8 * ONE, 3 * ONE), s.z)),
                     a.scale, 10)
      [] g = "rossler_attractor" ->
           Normalize(EulerFromOld(s,
                        -s.y - s.z,
                        s.x + Mul(10000, s.y),
                        10000 + Mul(s.z, s.x - Mul(14 * ONE, a.complexity))),
                     a.scale, 8)
      [] g = "henon_attractor" ->
           LET x_new == ONE - Mul(Mul(140000, a.complexity), Sq(s.x)) + s.y
               y_new == Mul(30000, s.x)
               z_new == Mul(x_new + y_new, 50000)
           IN  [x |-> Mul(Max(-ONE, Min(ONE, x_new)), a.scale),
                y |-> Mul(Max(-ONE, Min(ONE, y_new)), a.scale),
                z |-> Mul(Max(-ONE, Min(ONE, z_new)), a.scale)]

\* C24: every sample of a chaotic generator performs exactly one step from
\* the state the previous sample left (the derivatives all taken at that
\* state), the state it carries on is the renormalised (Henon: clamped and
\* scaled) one, and the sample's waypoint is computed from that carried state.
C24_OneStepFromOldState ==
    [][(gpc = "loop" /\ gen \in Chaotic /\ gi' = gi + 1) =>
          (/\ st' = CarriedState(gen, st, gargs)
           /\ Len(trajectory') = gi'
           /\ trajectory'[gi'] = ChaoticWp(gen, st', gi))]_vars

\* a second sample of a chaotic generator, taken from the carried state
C24_Witness ==
    /\ gen \in Chaotic
    /\ gi >= 2
    /\ gargs.scale > 0
    /\ st # InitState(gen)
    /\ trajectory[gi] = ChaoticWp(gen, st, gi - 1)

\* C25: the path circle.py hands to the robot has steps + 1 entries of 9
\* elements; the first `steps` entries have blend 0.002 and only the last
\* has blend 0; the last entry's pose is the start pose; the whole path goes
\* to moveL in one call, and stopScript comes only after that call.
C25_PathClosesWithZeroBlend ==
    /\ (cpc \in {"move", "stop"} \/ rtde # << >>) =>
          /\ Len(path) = steps + 1
          /\ \A k \in 1..Len(path) : Len(path[k]) = 9
          /\ \A k \in 1..steps : path[k][9] = 200
          /\ path[steps + 1][9] = 0
          /\ SubSeq(path[steps + 1], 1, 6) = start_pose
    /\ \A k \in 1..Len(rtde) :
          /\ rtde[k].op = "moveL" => (k = 1 /\ rtde[k].arg = path)
          /\ rtde[k].op = "stopScript" => (k = 2 /\ rtde[1].op = "moveL")

\* circle.py has sent its path and stopped the script
C25_Witness ==
    /\ cpc = "done"
    /\ Len(rtde) = 2
    /\ rtde[1].op = "moveL"
    /\ Len(rtde[1].arg) = steps + 1
    /\ rtde[2].op = "stopScript"
    /\ start_pose[1] # 0

\* C26: in every iteration of the replay loop that leaves `paused` true,
\* waypoint_idx is unchanged and no joint command is applied; `paused` turns
\* true only on a pause reading above 0.5 and false only on a reading below
\* 0.5, a reading of exactly 0.5 leaves it as it was; and a reading above
\* 0.5 already holds the replay in the iteration that reads it.
C26_PauseHoldsReplay ==
    [][(rpc = "run" /\ rpc' = "run") =>
          (/\ paused' => (/\ waypoint_idx' = waypoint_idx
                          /\ applied' = applied
                          /\ joints' = joints)
           /\ (~paused /\ paused') => pause_state' > 50000
           /\ (paused /\ ~paused') => pause_state' < 50000
           /\ pause_state' = 50000 => paused' = paused
           /\ pause_state' > 50000 => (paused' /\ waypoint_idx' = waypoint_idx))
      ]_vars

\* the replay is held at a waypoint after some waypoints were applied, on a
\* reading of exactly 0.5 that follows a pause
C26_Witness ==
    /\ rpc = "run"
    /\ paused
    /\ pause_state = 50000
    /\ waypoint_idx >= 3

\* C27: the replay applies trajectory[waypoint_idx mod len] to the 6 joints
\* and then adds exactly 1 to waypoint_idx: the applied list positions are
\* 0, 1, ..., len - 1, 0, 1, ... with none skipped or repeated, whatever
\* pauses and resumes came in between.
C27_WaypointsInOrder ==
    (rpc # "menu" /\ sim_trajectory # << >>) =>
        /\ Len(applied) = waypoint_idx
        /\ \A k \in 1..Len(applied) :
               applied[k] = (k - 1) % Len(sim_trajectory)
        /\ applied # << >> =>
               joints = SubSeq(sim_trajectory[applied[Len(applied)] + 1], 1, 6)

\* the replay has paused, resumed and wrapped around the trajectory
C27_Witness ==
    /\ rpc = "run"
    /\ ~paused
    /\ notice = "[RESUMED]"
    /\ waypoint_idx > Len(sim_trajectory) + 1
    /\ applied[waypoint_idx] = 1

\* C28: visualize_pattern passes the waypoints to the robot in list order,
\* each at most once, and passes none in or after the iteration that finds
\* the simulator client disconnected; and once main has constructed the
\* visualizer, close() is called exactly once by the time main is left, on
\* every path, and never twice.
C28_OrderedReplayThenOneClose ==
    [][/\ \A k \in 1..Len(vapplied') : vapplied'[k] = k - 1
       /\ Len(vapplied') <= Len(vtrajectory')
       /\ (vpc = "loop" /\ ~window) => vapplied' = vapplied
       /\ (\E k \in 1..Len(vprinted) : vprinted[k] = "Visualization stopped")
             => (vapplied' = vapplied /\ robot' = robot)
       /\ closes' <= 1
       /\ (vpc' = "exit" /\ visualizer') => closes' = 1
       /\ (~visualizer') => closes' = 0]_vars

\* the window was closed while waypoints were being shown: the replay
\* stopped short and main closed the visualizer
C28_Witness ==
    /\ vpc = "exit"
    /\ visualizer
    /\ closes = 1
    /\ vapplied # << >>
    /\ Len(vapplied) < Len(vtrajectory)
    /\ \E k \in 1..Len(vprinted) : vprinted[k] = "Visualization stopped"

\* C29: no step of a generator method changes self.num_points or
\* self.trajectory, which stays the empty list; every call of a chaotic
\* generator starts its integrator at its own start point, (1, 1, 1) for
\* Lorenz, (1, 0, 0) for Rossler, (0, 0, 0) for Henon; and a call returns
\* what an earlier call with the same num_points and arguments returned.
C29_CallsShareNoState ==
    [][/\ (gpc = "loop" \/ gpc' = "loop") =>
             (num_points' = num_points /\ self_trajectory' = self_trajectory)
       /\ gpc' # "new" => self_trajectory' = << >>
       /\ (gpc = "idle" /\ gpc' = "loop") =>
             st' = CASE gen' = "lorenz_attractor"  -> [x |-> ONE, y |-> ONE, z |-> ONE]
                     [] gen' = "rossler_attractor" -> [x |-> ONE, y |-> 0, z |-> 0]
                     [] OTHER                      -> [x |-> 0, y |-> 0, z |-> 0]
       /\ (/\ kept'.kind = "value" /\ gpc' = "idle" /\ ret'.kind = "value"
           /\ gen' = kept'.gen /\ gargs' = kept'.gargs /\ n' = kept'.n) =>
             ret'.val = kept'.val]_vars

\* a chaotic generator was called, something else was called, and the same
\* chaotic call was made again and has returned
C29_Witness ==
    /\ kept.kind = "value" /\ kept.gen \in Chaotic /\ kept.between
    /\ gpc = "idle" /\ ret.kind = "value" /\ n >= 2
    /\ gen = kept.gen /\ gargs = kept.gargs /\ n = kept.n
    /\ ret.val = kept.val
    /\ self_trajectory = << >>

\* C30: in every closed-form generator, for speed > 0, j6 of sample 0 is the
\* home value and j6 never decreases from one sample to the next, also where
\* j6 is clamped to 3.14.
C30_WristTwistNeverDecreases ==
    (gen \in ClosedForm /\ gargs.speed > 0) =>
        /\ Len(trajectory) >= 1 => trajectory[1][6] = 0
        /\ \A k \in 1..(Len(trajectory) - 1) :
               trajectory[k + 1][6] >= trajectory[k][6]

\* a clamping generator whose j6 has grown from sample to sample and has
\* reached the clamp at the last one
C30_Witness ==
    /\ gen \in {"heart_equation", "batman_equation", "infinity_symbol"}
    /\ gargs.speed > 0
    /\ gi = n
    /\ n >= 3
    /\ trajectory[1][6] = 0
    /\ trajectory[n - 1][6] > 0
    /\ trajectory[n - 1][6] < 314000
    /\ trajectory[n][6] = 314000

=============================================================================
